---- MODULE Spec2Model ----
(***************************************************************************)
(* Model of the cursor pagination of the user listing endpoint:            *)
(*   - PaginationToken::encode / decode           (src/pagination/mod.rs)  *)
(*   - ReadUserService::get_users_paginated    (src/user/services/read.rs) *)
(*   - the users table behind UserRepository      (src/user/repository.rs) *)
(* Text is modelled byte by byte: a JSON document is a sequence of byte    *)
(* values (0 .. 255), a token is a sequence of one-character strings.      *)
(***************************************************************************)
EXTENDS Integers, Sequences, FiniteSets, TLC

(***************************************************************************)
(* Characters and bytes.                                                   *)
(***************************************************************************)

\* The printable ASCII characters, code 32 (space) to code 126 (~), in order
\* (GRAVE stands for the grave accent, code 96).
Printable ==
  << " ", "!", "\"", "#", "$", "%", "&", "'", "(", ")", "*", "+", ",", "-", ".", "/",
     "0", "1", "2", "3", "4", "5", "6", "7", "8", "9", ":", ";", "<", "=", ">", "?",
     "@", "A", "B", "C", "D", "E", "F", "G", "H", "I", "J", "K", "L", "M", "N", "O",
     "P", "Q", "R", "S", "T", "U", "V", "W", "X", "Y", "Z", "[", "\\", "]", "^", "_",
     "GRAVE", "a", "b", "c", "d", "e", "f", "g", "h", "i", "j", "k", "l", "m", "n", "o",
     "p", "q", "r", "s", "t", "u", "v", "w", "x", "y", "z", "{", "|", "}", "~" >>

PrintableSet == { Printable[i] : i \in DOMAIN Printable }

\* The byte value of a printable character.
OrdOf == [ ch \in PrintableSet |-> 31 + (CHOOSE i \in DOMAIN Printable : Printable[i] = ch) ]

Ord(ch) == OrdOf[ch]

\* The bytes of a text written as a sequence of characters (str::as_bytes on ASCII).
Bytes(chars) == [ i \in DOMAIN chars |-> Ord(chars[i]) ]

IsDigit(b) == b >= Ord("0") /\ b <= Ord("9")

DigitChar(d) == Ord("0") + d

\* JSON whitespace: space, tab, line feed, carriage return.
IsWs(b) == b \in { Ord(" "), 9, 10, 13 }

(***************************************************************************)
(* base64, URL-safe alphabet, no padding (general_purpose::URL_SAFE_NO_PAD)*)
(***************************************************************************)

B64Alphabet ==
  << "A", "B", "C", "D", "E", "F", "G", "H", "I", "J", "K", "L", "M", "N", "O", "P",
     "Q", "R", "S", "T", "U", "V", "W", "X", "Y", "Z", "a", "b", "c", "d", "e", "f",
     "g", "h", "i", "j", "k", "l", "m", "n", "o", "p", "q", "r", "s", "t", "u", "v",
     "w", "x", "y", "z", "0", "1", "2", "3", "4", "5", "6", "7", "8", "9", "-", "_" >>

B64Set == { B64Alphabet[i] : i \in DOMAIN B64Alphabet }

\* The 6-bit value of a symbol of the alphabet.
B64Value == [ ch \in B64Set |-> (CHOOSE i \in DOMAIN B64Alphabet : B64Alphabet[i] = ch) - 1 ]

B64Sym(v) == B64Alphabet[v + 1]

RECURSIVE B64EncodeFrom(_, _)
\* Three bytes give four symbols; a final group of one or two bytes gives two
\* or three symbols and no '=' padding.
B64EncodeFrom(b, i) ==
  LET n == Len(b) - i + 1 IN
  IF n <= 0 THEN << >>
  ELSE IF n = 1 THEN
    << B64Sym(b[i] \div 4), B64Sym((b[i] % 4) * 16) >>
  ELSE IF n = 2 THEN
    << B64Sym(b[i] \div 4),
       B64Sym((b[i] % 4) * 16 + b[i+1] \div 16),
       B64Sym((b[i+1] % 16) * 4) >>
  ELSE
    << B64Sym(b[i] \div 4),
       B64Sym((b[i] % 4) * 16 + b[i+1] \div 16),
       B64Sym((b[i+1] % 16) * 4 + b[i+2] \div 64),
       B64Sym(b[i+2] % 64) >> \o B64EncodeFrom(b, i + 3)

B64Encode(b) == B64EncodeFrom(b, 1)

RECURSIVE B64DecodeFrom(_, _)
\* The bytes of the symbols from position i on; the caller has checked the
\* symbols, the length and the trailing bits.
B64DecodeFrom(t, i) ==
  LET n == Len(t) - i + 1
      v(k) == B64Value[t[i + k]]
  IN
  IF n <= 1 THEN << >>
  ELSE IF n = 2 THEN << v(0) * 4 + v(1) \div 16 >>
  ELSE IF n = 3 THEN << v(0) * 4 + v(1) \div 16, (v(1) % 16) * 16 + v(2) \div 4 >>
  ELSE << v(0) * 4 + v(1) \div 16,
          (v(1) % 16) * 16 + v(2) \div 4,
          (v(2) % 4) * 64 + v(3) >> \o B64DecodeFrom(t, i + 4)

\* Engine::decode: a symbol outside the alphabet (also '='), a length of
\* 1 modulo 4, or non-zero bits after the last whole byte are errors.
B64Decode(t) ==
  LET n == Len(t)
      last == B64Value[t[n]]
  IN
  IF \E i \in DOMAIN t : t[i] \notin B64Set THEN [ok |-> FALSE]
  ELSE IF n % 4 = 1 THEN [ok |-> FALSE]
  ELSE IF n % 4 = 2 /\ last % 16 # 0 THEN [ok |-> FALSE]
  ELSE IF n % 4 = 3 /\ last % 4 # 0 THEN [ok |-> FALSE]
  ELSE [ok |-> TRUE, bytes |-> B64DecodeFrom(t, 1)]

(***************************************************************************)
(* String::from_utf8                                                       *)
(***************************************************************************)

IsCont(b, i) == i <= Len(b) /\ b[i] >= 128 /\ b[i] <= 191

RECURSIVE Utf8From(_, _)
Utf8From(b, i) ==
  IF i > Len(b) THEN TRUE
  ELSE IF b[i] < 128 THEN Utf8From(b, i + 1)
  ELSE IF b[i] >= 194 /\ b[i] <= 223 THEN IsCont(b, i + 1) /\ Utf8From(b, i + 2)
  ELSE IF b[i] >= 224 /\ b[i] <= 239 THEN
    /\ IsCont(b, i + 1) /\ IsCont(b, i + 2)
    /\ (b[i] = 224 => b[i + 1] >= 160)
    /\ (b[i] = 237 => b[i + 1] <= 159)
    /\ Utf8From(b, i + 3)
  ELSE IF b[i] >= 240 /\ b[i] <= 244 THEN
    /\ IsCont(b, i + 1) /\ IsCont(b, i + 2) /\ IsCont(b, i + 3)
    /\ (b[i] = 240 => b[i + 1] >= 144)
    /\ (b[i] = 244 => b[i + 1] <= 143)
    /\ Utf8From(b, i + 4)
  ELSE FALSE

IsUtf8(b) == Utf8From(b, 1)

(***************************************************************************)
(* Values: i32 and chrono::DateTime<Utc>.                                  *)
(* A DateTime is a calendar date, the second of the day and the nanosecond *)
(* of the second (1 000 000 000 and more inside a leap second), which is   *)
(* how chrono stores it; derived comparison is lexicographic.              *)
(***************************************************************************)

I32Min == -2147483647 - 1

I32Max == 2147483647

IsLeapYear(y) == y % 4 = 0 /\ (y % 100 # 0 \/ y % 400 = 0)

DaysIn(y, m) ==
  IF m = 2 THEN (IF IsLeapYear(y) THEN 29 ELSE 28)
  ELSE IF m \in {4, 6, 9, 11} THEN 30 ELSE 31

DateTime(y, mo, d, secs, frac) ==
  [year |-> y, month |-> mo, day |-> d, secs |-> secs, frac |-> frac]

\* The derived Ord of DateTime<Utc>.
DateTimeKey(t) == << t.year, t.month, t.day, t.secs, t.frac >>

RECURSIVE TupleLess(_, _, _)
TupleLess(a, b, i) ==
  IF i > Len(a) THEN FALSE
  ELSE IF a[i] # b[i] THEN a[i] < b[i]
  ELSE TupleLess(a, b, i + 1)

DateTimeLess(a, b) == TupleLess(DateTimeKey(a), DateTimeKey(b), 1)

(***************************************************************************)
(* serde_json::to_string(&CursorData)                                      *)
(***************************************************************************)

RECURSIVE Pad(_, _)
\* n >= 0 written with exactly w digits, zero padded.
Pad(n, w) == IF w = 0 THEN << >> ELSE Pad(n \div 10, w - 1) \o << DigitChar(n % 10) >>

RECURSIVE Decimal(_)
\* n >= 0 written without leading zeros.
Decimal(n) == IF n < 10 THEN << DigitChar(n) >> ELSE Decimal(n \div 10) \o << DigitChar(n % 10) >>

RECURSIVE NegDecimal(_)
\* The digits of -n for n < 0, computed without negating n (i32::MIN has
\* no positive counterpart).
NegDecimal(n) ==
  LET d == (10 - (n % 10)) % 10
      q == (n + d) \div 10
  IN IF q = 0 THEN << DigitChar(d) >> ELSE NegDecimal(q) \o << DigitChar(d) >>

\* Serialization of an i32.
FormatI32(n) == IF n < 0 THEN << Ord("-") >> \o NegDecimal(n) ELSE Decimal(n)

\* Serialization of the fraction of a second: nothing, or 3, 6 or 9 digits.
FormatFrac(nano) ==
  IF nano = 0 THEN << >>
  ELSE IF nano % 1000000 = 0 THEN << Ord(".") >> \o Pad(nano \div 1000000, 3)
  ELSE IF nano % 1000 = 0 THEN << Ord(".") >> \o Pad(nano \div 1000, 6)
  ELSE << Ord(".") >> \o Pad(nano, 9)

\* Serialization of a DateTime<Utc>: YYYY-MM-DDTHH:MM:SS[.fraction]Z.
FormatDateTime(t) ==
  LET leap == t.frac >= 1000000000
      sec == (t.secs % 60) + (IF leap THEN 1 ELSE 0)
      nano == IF leap THEN t.frac - 1000000000 ELSE t.frac
  IN Pad(t.year, 4) \o << Ord("-") >> \o Pad(t.month, 2) \o << Ord("-") >> \o Pad(t.day, 2)
     \o << Ord("T") >> \o Pad(t.secs \div 3600, 2) \o << Ord(":") >>
     \o Pad((t.secs \div 60) % 60, 2) \o << Ord(":") >> \o Pad(sec, 2)
     \o FormatFrac(nano) \o << Ord("Z") >>

\* {"id":<id>,"timestamp":"<timestamp>"}
ToJson(id, timestamp) ==
  Bytes(<< "{", "\"", "i", "d", "\"", ":" >>) \o FormatI32(id)
  \o Bytes(<< ",", "\"", "t", "i", "m", "e", "s", "t", "a", "m", "p", "\"", ":", "\"" >>)
  \o FormatDateTime(timestamp) \o Bytes(<< "\"", "}" >>)

(***************************************************************************)
(* serde_json::from_str::<CursorData>.  A parser returns [ok |-> FALSE] or  *)
(* [ok |-> TRUE, next |-> position after what it read, ...].               *)
(* Modelled grammar: objects and arrays of strings without escapes,        *)
(* integers and the literals true, false, null; timestamps in UTC.         *)
(***************************************************************************)

Fail == [ok |-> FALSE]

At(s, i, ch) == i <= Len(s) /\ s[i] = Ord(ch)

RECURSIVE SkipWs(_, _)
SkipWs(s, i) == IF i <= Len(s) /\ IsWs(s[i]) THEN SkipWs(s, i + 1) ELSE i

RECURSIVE DigitsEnd(_, _)
\* The first position from i on that holds no digit.
DigitsEnd(s, i) == IF i <= Len(s) /\ IsDigit(s[i]) THEN DigitsEnd(s, i + 1) ELSE i

RECURSIVE NegValue(_, _, _, _)
\* Minus the value of the digits s[i .. k-1], accumulated from acc; 1 when
\* it is below i32::MIN.
NegValue(s, i, k, acc) ==
  IF i >= k THEN acc
  ELSE LET d == s[i] - Ord("0") IN
       IF acc < -214748364 \/ (acc = -214748364 /\ d > 8) THEN 1
       ELSE NegValue(s, i + 1, k, acc * 10 - d)

\* An i32 at position i: an optional minus sign and digits without a
\* leading zero; a fraction or an exponent makes it a float, which an i32
\* field rejects, as it rejects -0 and values outside the i32 range.
ParseI32(s, i) ==
  LET neg == At(s, i, "-")
      j == IF neg THEN i + 1 ELSE i
      k == DigitsEnd(s, j)
      m == NegValue(s, j, k, 0)
  IN
  IF k = j THEN Fail
  ELSE IF s[j] = Ord("0") /\ k > j + 1 THEN Fail
  ELSE IF At(s, k, ".") \/ At(s, k, "e") \/ At(s, k, "E") THEN Fail
  ELSE IF m = 1 THEN Fail
  ELSE IF neg THEN (IF m = 0 THEN Fail ELSE [ok |-> TRUE, next |-> k, val |-> m])
  ELSE IF m = I32Min THEN Fail
  ELSE [ok |-> TRUE, next |-> k, val |-> 0 - m]

RECURSIVE StringEnd(_, _)
\* The position of the closing quote of a string whose content starts at
\* i; 0 when the text ends first or holds a control character or an escape.
StringEnd(s, i) ==
  IF i > Len(s) THEN 0
  ELSE IF s[i] = Ord("\"") THEN i
  ELSE IF s[i] < 32 \/ s[i] = Ord("\\") THEN 0
  ELSE StringEnd(s, i + 1)

\* A string at position i: its content, without the quotes.
ParseString(s, i) ==
  LET e == StringEnd(s, i + 1) IN
  IF ~At(s, i, "\"") \/ e = 0 THEN Fail
  ELSE [ok |-> TRUE, next |-> e + 1, val |-> SubSeq(s, i + 1, e - 1)]

RECURSIVE Number(_, _, _)
\* The value of the w digits at position i, -1 when one of them is no digit.
Number(s, i, w) ==
  IF w = 0 THEN 0
  ELSE IF i + w - 1 > Len(s) \/ ~IsDigit(s[i + w - 1]) THEN -1
  ELSE LET hi == Number(s, i, w - 1) IN
       IF hi < 0 THEN -1 ELSE hi * 10 + (s[i + w - 1] - Ord("0"))

RECURSIVE FracValue(_, _, _, _)
\* Nanoseconds of the fraction digits s[i .. k-1]: the first nine count.
FracValue(s, i, k, n) ==
  IF n = 9 THEN 0
  ELSE LET d == IF i < k THEN s[i] - Ord("0") ELSE 0
           rest == FracValue(s, i + 1, k, n + 1)
           scale == CASE n = 0 -> 100000000 [] n = 1 -> 10000000 [] n = 2 -> 1000000
                      [] n = 3 -> 100000 [] n = 4 -> 10000 [] n = 5 -> 1000
                      [] n = 6 -> 100 [] n = 7 -> 10 [] OTHER -> 1
       IN d * scale + rest

\* The offset at position i is UTC: Z, z, +00:00 or -00:00.  Gives the
\* position after it, 0 otherwise.
UtcOffsetEnd(s, i) ==
  IF At(s, i, "Z") \/ At(s, i, "z") THEN i + 1
  ELSE IF (At(s, i, "+") \/ At(s, i, "-")) /\ Number(s, i + 1, 2) = 0
          /\ At(s, i + 3, ":") /\ Number(s, i + 4, 2) = 0 THEN i + 6
  ELSE 0

\* str::parse::<DateTime<FixedOffset>> of an RFC 3339 text, in UTC.
ParseDateTime(s) ==
  LET y == Number(s, 1, 4)
      mo == Number(s, 6, 2)
      d == Number(s, 9, 2)
      h == Number(s, 12, 2)
      mi == Number(s, 15, 2)
      sec == Number(s, 18, 2)
      hasFrac == At(s, 20, ".")
      fracEnd == IF hasFrac THEN DigitsEnd(s, 21) ELSE 20
      nano == IF hasFrac THEN FracValue(s, 21, fracEnd, 0) ELSE 0
      offEnd == UtcOffsetEnd(s, fracEnd)
  IN
  IF y < 0 \/ mo < 0 \/ d < 0 \/ h < 0 \/ mi < 0 \/ sec < 0 THEN Fail
  ELSE IF ~(At(s, 5, "-") /\ At(s, 8, "-") /\ At(s, 14, ":") /\ At(s, 17, ":")) THEN Fail
  ELSE IF ~(At(s, 11, "T") \/ At(s, 11, "t") \/ At(s, 11, " ")) THEN Fail
  ELSE IF mo < 1 \/ mo > 12 \/ d < 1 \/ d > DaysIn(y, mo) THEN Fail
  ELSE IF h > 23 \/ mi > 59 \/ sec > 60 THEN Fail
  ELSE IF hasFrac /\ fracEnd = 21 THEN Fail
  ELSE IF offEnd # Len(s) + 1 THEN Fail
  ELSE [ok |-> TRUE,
        val |-> DateTime(y, mo, d, h * 3600 + mi * 60 + (IF sec = 60 THEN 59 ELSE sec),
                         IF sec = 60 THEN nano + 1000000000 ELSE nano)]

\* A literal true, false or null at position i: the position after it, else 0.
LiteralEnd(s, i) ==
  LET is(w) == i + Len(w) - 1 <= Len(s) /\ SubSeq(s, i, i + Len(w) - 1) = Bytes(w) IN
  IF is(<< "t", "r", "u", "e" >>) \/ is(<< "n", "u", "l", "l" >>) THEN i + 4
  ELSE IF is(<< "f", "a", "l", "s", "e" >>) THEN i + 5
  ELSE 0

\* IgnoredAny: the value of a field CursorData does not have is skipped.
SkipValue(s, i) ==
  IF At(s, i, "\"") THEN ParseString(s, i)
  ELSE IF LiteralEnd(s, i) # 0 THEN [ok |-> TRUE, next |-> LiteralEnd(s, i)]
  ELSE LET neg == At(s, i, "-")
           j == IF neg THEN i + 1 ELSE i
           k == DigitsEnd(s, j)
       IN IF k = j \/ (s[j] = Ord("0") /\ k > j + 1) THEN Fail
          ELSE [ok |-> TRUE, next |-> k]

\* An operator's arguments are evaluated once, a LET definition at every
\* use: parsed values are handed on as arguments.

\* DateTimeVisitor::visit_str on the string str read from the text.
VisitTimestamp(str, dt) ==
  IF ~dt.ok THEN Fail ELSE [ok |-> TRUE, next |-> str.next, val |-> dt.val]

DeserializeStr(str) ==
  IF ~str.ok THEN Fail ELSE VisitTimestamp(str, ParseDateTime(str.val))

\* The timestamp field: a JSON string that parses as a DateTime.
ParseTimestamp(s, i) == DeserializeStr(ParseString(s, i))

None == [some |-> FALSE]

Some(v) == [some |-> TRUE, val |-> v]

IdKey == Bytes(<< "i", "d" >>)

TimestampKey == Bytes(<< "t", "i", "m", "e", "s", "t", "a", "m", "p" >>)

RECURSIVE ParseMembers(_, _, _, _, _)
RECURSIVE MemberValue(_, _, _, _, _)
RECURSIVE Member(_, _, _, _)

\* visit_map: the members of the object from position i on (first: none
\* read yet), with the fields read so far.  Both fields are required, a
\* repeated field is an error, other fields are ignored.
ParseMembers(s, i, first, id, ts) ==
  LET i0 == SkipWs(s, i)
      i1 == IF first THEN i0 ELSE SkipWs(s, i0 + 1)
  IN
  IF At(s, i0, "}") THEN
    (IF id.some /\ ts.some
     THEN [ok |-> TRUE, next |-> i0 + 1, id |-> id.val, timestamp |-> ts.val]
     ELSE Fail)
  ELSE IF ~first /\ ~At(s, i0, ",") THEN Fail
  ELSE Member(s, ParseString(s, i1), id, ts)

\* A member whose key has been read: the colon and the value.
Member(s, key, id, ts) ==
  LET i2 == SkipWs(s, key.next)
      i3 == SkipWs(s, i2 + 1)
  IN
  IF ~key.ok THEN Fail
  ELSE IF ~At(s, i2, ":") THEN Fail
  ELSE IF key.val = IdKey THEN
    (IF id.some THEN Fail ELSE MemberValue(s, "id", ParseI32(s, i3), id, ts))
  ELSE IF key.val = TimestampKey THEN
    (IF ts.some THEN Fail ELSE MemberValue(s, "timestamp", ParseTimestamp(s, i3), id, ts))
  ELSE MemberValue(s, "ignored", SkipValue(s, i3), id, ts)

\* A member whose value v has been read: on to the next member.
MemberValue(s, field, v, id, ts) ==
  IF ~v.ok THEN Fail
  ELSE ParseMembers(s, v.next, FALSE,
                    IF field = "id" THEN Some(v.val) ELSE id,
                    IF field = "timestamp" THEN Some(v.val) ELSE ts)

\* visit_seq, the second element read: the closing bracket.
SecondElement(s, id, ts) ==
  IF ~ts.ok THEN Fail
  ELSE IF ~At(s, SkipWs(s, ts.next), "]") THEN Fail
  ELSE [ok |-> TRUE, next |-> SkipWs(s, ts.next) + 1, id |-> id.val, timestamp |-> ts.val]

\* visit_seq, the first element read: a comma and the second element.
FirstElement(s, id) ==
  IF ~id.ok THEN Fail
  ELSE IF ~At(s, SkipWs(s, id.next), ",") THEN Fail
  ELSE SecondElement(s, id, ParseTimestamp(s, SkipWs(s, SkipWs(s, id.next) + 1)))

\* visit_seq: [ id , timestamp ] with exactly two elements.
ParseElements(s, i) == FirstElement(s, ParseI32(s, SkipWs(s, i)))

\* Deserializer::end: only whitespace may follow the value.
End(s, v) ==
  IF ~v.ok THEN Fail
  ELSE IF SkipWs(s, v.next) # Len(s) + 1 THEN Fail
  ELSE [ok |-> TRUE, id |-> v.id, timestamp |-> v.timestamp]

\* deserialize_struct: an object or an array.
FromJson(s) ==
  LET i0 == SkipWs(s, 1) IN
  IF At(s, i0, "{") THEN End(s, ParseMembers(s, i0 + 1, TRUE, None, None))
  ELSE IF At(s, i0, "[") THEN End(s, ParseElements(s, i0 + 1))
  ELSE Fail

(***************************************************************************)
(* PaginationToken                                                         *)
(***************************************************************************)

\* Whether serde_json::to_string(&cursor_data) returns Ok.  It does for every
\* CursorData, an i32 and a DateTime; a failure is put in from outside, to
\* take encode through its EncodingError arm.
VARIABLE to_string_ok

\* Encode with the padded engine: '=' up to a multiple of four symbols.
EncodePadded(last_id, timestamp) ==
  LET t == B64Encode(ToJson(last_id, timestamp)) IN
  [ok |-> TRUE,
   token |-> t \o (CASE Len(t) % 4 = 2 -> << "=", "=" >>
                     [] Len(t) % 4 = 3 -> << "=" >>
                     [] OTHER -> << >>)]

\* PaginationToken::encode: Ok(token), or EncodingError when to_string
\* fails; serializing an i32 and a DateTime to a string has no failing case.
Encode(last_id, timestamp) ==
  IF to_string_ok
  THEN [ok |-> TRUE, token |-> B64Encode(ToJson(last_id, timestamp))]
  ELSE [ok |-> FALSE, err |-> "EncodingError"]

InvalidToken == [ok |-> FALSE, err |-> "InvalidToken"]

\* serde_json::from_str(&json).map_err(|_| TokenError::InvalidToken)?
DecodeJson(cursor_data) ==
  IF ~cursor_data.ok THEN InvalidToken
  ELSE [ok |-> TRUE, id |-> cursor_data.id, timestamp |-> cursor_data.timestamp]

\* DecodeBytes without the UTF-8 check.
DecodeBytesUnchecked(decoded_bytes) ==
  IF ~decoded_bytes.ok THEN InvalidToken
  ELSE DecodeJson(FromJson(decoded_bytes.bytes))

\* String::from_utf8(decoded_bytes).map_err(|_| TokenError::InvalidToken)?
DecodeBytes(decoded_bytes) ==
  IF ~decoded_bytes.ok THEN InvalidToken
  ELSE IF ~IsUtf8(decoded_bytes.bytes) THEN InvalidToken
  ELSE DecodeJson(FromJson(decoded_bytes.bytes))

\* PaginationToken::decode: Ok((id, timestamp)) or Err(InvalidToken).
Decode(token) == DecodeBytes(B64Decode(token))

\* PaginationToken::is_valid
IsValid(token) == Decode(token).ok

(***************************************************************************)
(* The users table and UserRepository.                                     *)
(* A row is [id, created_at]; ids come from a sequence and are never       *)
(* reused.                                                                 *)
(***************************************************************************)

\* Bounds: rows ever inserted, and the clock values 0 .. MaxTime.
MaxUsers == 3

MaxTime == 1

\* The created_at of clock value t: whole seconds for even t, a fraction
\* of microseconds for odd t.
Time(t) == DateTime(2024, 1, 1, t \div 2, (t % 2) * 1500000)

\* (created_at, id) of a is strictly below that of b.
KeyLess(a, b) ==
  \/ DateTimeLess(a.created_at, b.created_at)
  \/ (a.created_at = b.created_at /\ a.id < b.id)

\* WHERE created_at > $2 OR (created_at = $2 AND id > $1)
AfterCursor(u, last_id, last_created_at) ==
  \/ DateTimeLess(last_created_at, u.created_at)
  \/ (u.created_at = last_created_at /\ u.id > last_id)

RECURSIVE OrderBy(_)
\* ORDER BY created_at ASC, id ASC
OrderBy(rows) ==
  IF rows = {} THEN << >>
  ELSE LET first == CHOOSE u \in rows : \A v \in rows \ {u} : KeyLess(u, v)
       IN << first >> \o OrderBy(rows \ {first})

Take(seq, n) == SubSeq(seq, 1, IF n < Len(seq) THEN n ELSE Len(seq))

\* UserRepository::find_paginated(cursor, limit): the first `limit` rows
\* after the cursor (all rows without one) in (created_at, id) order;
\* a negative LIMIT is refused by the database.
FindPaginated(table, cursor, limit) ==
  LET rows == IF cursor.some
              THEN { u \in table : AfterCursor(u, cursor.val[1], cursor.val[2]) }
              ELSE table
  IN IF limit < 0 THEN [ok |-> FALSE, err |-> "DatabaseError"]
     ELSE [ok |-> TRUE, users |-> Take(OrderBy(rows), limit)]

(***************************************************************************)
(* ReadUserService::get_users_paginated                                    *)
(***************************************************************************)

Min(a, b) == IF a < b THEN a ELSE b

Max(a, b) == IF a > b THEN a ELSE b

UnwrapOr(opt, default) == IF opt.some THEN opt.val ELSE default

\* ClampLimit without its floor: .max(1) left out.
ClampLimitNoFloor(limit) == Min(UnwrapOr(limit, 200), 200)

\* params.limit.unwrap_or(200).min(200).max(1)
ClampLimit(limit) == Max(Min(UnwrapOr(limit, 200), 200), 1)

\* FetchSize without the row beyond the page.
FetchSizeExact(limit) == limit

\* limit + 1 on i32, wrapping.
FetchSize(limit) == IF limit = I32Max THEN I32Min ELSE limit + 1

\* HasMore with >= for >.
HasMoreAtLeast(users, limit) == limit >= 0 /\ Len(users) >= limit

\* HasMore that takes any row for the sign of a further page.
HasMoreNonEmpty(users, limit) == limit >= 0 /\ Len(users) > 0

\* users.len() > limit as usize
HasMore(users, limit) == limit >= 0 /\ Len(users) > limit

\* Trim without the pop.
TrimNothing(users, has_more) == users

\* Trim that drops the first row for the last.
TrimFirst(users, has_more) ==
  IF has_more /\ users # << >> THEN SubSeq(users, 2, Len(users)) ELSE users

\* if has_more { result_users.pop(); }
Trim(users, has_more) ==
  IF has_more /\ users # << >> THEN SubSeq(users, 1, Len(users) - 1) ELSE users

\* NextToken without the has_more test: a token whenever a row was returned.
NextTokenAlways(result_users, has_more) ==
  IF result_users = << >> THEN None
  ELSE Some(Encode(result_users[Len(result_users)].id,
                   result_users[Len(result_users)].created_at).token)

\* NextToken that names the first row of the page, not the last.
NextTokenFirst(result_users, has_more) ==
  IF ~has_more \/ result_users = << >> THEN None
  ELSE Some(Encode(result_users[1].id, result_users[1].created_at).token)

\* NextToken without the filter: the empty string of a failed encode is
\* handed out as a token.
NextTokenUnfiltered(result_users, has_more) ==
  IF ~has_more \/ result_users = << >> THEN None
  ELSE Some(IF Encode(result_users[Len(result_users)].id,
                      result_users[Len(result_users)].created_at).ok
            THEN Encode(result_users[Len(result_users)].id,
                        result_users[Len(result_users)].created_at).token
            ELSE << >>)

\* result_users.last().map(encode .. unwrap_or_else(String::new))
\*   .filter(|token| !token.is_empty()) when has_more, else None
NextToken(result_users, has_more) ==
  IF ~has_more \/ result_users = << >> THEN None
  ELSE LET user == result_users[Len(result_users)]
           enc == Encode(user.id, user.created_at)
           token == IF enc.ok THEN enc.token ELSE << >>
       IN IF token = << >> THEN None ELSE Some(token)

DatabaseError == [ok |-> FALSE, err |-> "DatabaseError"]

\* Assemble with the token taken before the trim: it names the extra row.
AssembleTokenBeforeTrim(found_users, limit) ==
  [ok |-> TRUE,
   users |-> Trim(found_users, HasMore(found_users, limit)),
   next_token |-> NextToken(found_users, HasMore(found_users, limit)),
   has_more |-> HasMore(found_users, limit),
   count |-> Len(Trim(found_users, HasMore(found_users, limit)))]

\* The PaginatedUsersResponse built from the rows the repository returned.
Assemble(found_users, limit) ==
  LET has_more == HasMore(found_users, limit)
      result_users == Trim(found_users, has_more)
  IN [ok |-> TRUE,
      users |-> result_users,
      next_token |-> NextToken(result_users, has_more),
      has_more |-> has_more,
      count |-> Len(result_users)]

\* repository.find_paginated(cursor, limit + 1).await? and what follows.
Fetched(found, cursor, limit) ==
  [query |-> Some([cursor |-> cursor, limit |-> FetchSize(limit)]),
   result |-> IF found.ok THEN Assemble(found.users, limit)
              ELSE [ok |-> FALSE, err |-> found.err]]

\* Fetch that asks again after a failure, the second query being answered.
FetchWithRetry(table, cursor, limit, db_ok) ==
  Fetched(FindPaginated(table, cursor, FetchSize(limit)), cursor, limit)

\* The fetch with the cursor decided.  db_ok: the query does not fail.
Fetch(table, cursor, limit, db_ok) ==
  Fetched(IF db_ok THEN FindPaginated(table, cursor, FetchSize(limit)) ELSE DatabaseError,
          cursor, limit)

\* WithToken that decodes the token and then fetches without a cursor.
WithTokenIgnoreCursor(table, decoded, limit, db_ok) ==
  IF ~decoded.ok
  THEN [query |-> None, result |-> [ok |-> FALSE, err |-> "InvalidToken"]]
  ELSE Fetch(table, None, limit, db_ok)

\* WithToken that keeps the timestamp of the cursor and loses its id.
WithTokenTimestampOnly(table, decoded, limit, db_ok) ==
  IF ~decoded.ok
  THEN [query |-> None, result |-> [ok |-> FALSE, err |-> "InvalidToken"]]
  ELSE Fetch(table, Some(<< 0, decoded.timestamp >>), limit, db_ok)

\* WithToken that keeps the id of the cursor and loses its timestamp.
WithTokenIdOnly(table, decoded, limit, db_ok) ==
  IF ~decoded.ok
  THEN [query |-> None, result |-> [ok |-> FALSE, err |-> "InvalidToken"]]
  ELSE Fetch(table, Some(<< decoded.id, DateTime(1970, 1, 1, 0, 0) >>), limit, db_ok)

\* WithToken whose cursor lets the row it names through once more.
WithTokenInclusive(table, decoded, limit, db_ok) ==
  IF ~decoded.ok
  THEN [query |-> None, result |-> [ok |-> FALSE, err |-> "InvalidToken"]]
  ELSE Fetch(table, Some(<< decoded.id - 1, decoded.timestamp >>), limit, db_ok)

\* WithToken that asks the repository for the first page before it looks
\* at the token.
WithTokenFetchFirst(table, decoded, limit, db_ok) ==
  IF ~decoded.ok
  THEN [query |-> Fetch(table, None, limit, db_ok).query,
        result |-> [ok |-> FALSE, err |-> "InvalidToken"]]
  ELSE Fetch(table, Some(<< decoded.id, decoded.timestamp >>), limit, db_ok)

\* WithToken that refuses a cursor no row of the table has.
WithTokenMustExist(table, decoded, limit, db_ok) ==
  IF ~decoded.ok \/ ~\E u \in table : u.id = decoded.id /\ u.created_at = decoded.timestamp
  THEN [query |-> None, result |-> [ok |-> FALSE, err |-> "InvalidToken"]]
  ELSE Fetch(table, Some(<< decoded.id, decoded.timestamp >>), limit, db_ok)

\* PaginationToken::decode(&token).map_err(|_| UserError::InvalidToken)?
WithToken(table, decoded, limit, db_ok) ==
  IF ~decoded.ok
  THEN [query |-> None, result |-> [ok |-> FALSE, err |-> "InvalidToken"]]
  ELSE Fetch(table, Some(<< decoded.id, decoded.timestamp >>), limit, db_ok)

\* The whole handler on a table: what it asks the repository (query, None
\* when it returns before asking) and what it returns.
GetUsersPaginated(table, params, db_ok) ==
  IF params.next_token.some
  THEN WithToken(table, Decode(params.next_token.val), ClampLimit(params.limit), db_ok)
  ELSE Fetch(table, None, ClampLimit(params.limit), db_ok)

\* get_all_users_handler: the status and the body of the response for what
\* get_users_paginated returned.
GetAllUsersHandler(result) ==
  IF result.ok THEN [status |-> 200, body |-> Some(result)]
  ELSE IF result.err = "InvalidToken" THEN [status |-> 400, body |-> None]
  ELSE IF result.err = "DatabaseError" THEN [status |-> 500, body |-> None]
  ELSE [status |-> 500, body |-> None]

(***************************************************************************)
(* The state: the database, the last page request of a client with its     *)
(* outcome, and the history of the client's pagination run.                *)
(***************************************************************************)

VARIABLES
  users,     \* the rows of the users table
  next_id,   \* the next value of the id sequence
  req,       \* the last PaginationParams served
  resp,      \* what get_users_paginated returned for req
  query,     \* the find_paginated call made for req, None if none
  run,       \* the pagination run: phase, pages so far, table untouched so far
  atFetch,   \* the table when req was served
  prev,      \* the table and the page of the request before req, in a run
  pending,   \* the changes of the table since req was served
  between,   \* the changes of the table between the request before and req
  call,      \* a direct call of PaginationToken: inputs and result
  db,        \* whether the database answered the queries of the last request
  again,     \* what req returned when the client sent it a second time
  http,      \* the last exchange with the routes of one user and of health
  deleted,   \* the ids delete_user has deleted
  track,     \* of a run that is followed: the id sequence at its start, its requests
  inflight   \* the update_user calls between their read and their write

vars ==
  << users, next_id, req, resp, query, run, atFetch, prev, pending, between, call,
     db, again, http, deleted, to_string_ok, track, inflight >>

\* No run is followed.
NoTrack == [from |-> 0, pages |-> 0]

\* The update_user calls that may run at a time.
Tasks == { "a", "b" }

\* No update_user call has read without having written.
NoneInflight == [t \in Tasks |-> None]

\* The limits of the requests of a pagination run.
RunLimits == { None, Some(1), Some(2) }

Quiet == [any |-> FALSE, behind |-> TRUE, late |-> TRUE]

NoRun == [phase |-> "idle", seen |-> << >>, static |-> TRUE]

NoPrev == [table |-> {}, page |-> << >>]

NoCall == [op |-> "none"]

\* No request served yet.
NoClient ==
  /\ req = None
  /\ resp = None
  /\ query = None
  /\ run = NoRun
  /\ atFetch = {}
  /\ prev = NoPrev
  /\ pending = Quiet
  /\ between = Quiet
  /\ db = TRUE
  /\ again = None
  /\ http = None
  /\ deleted = {}
  /\ to_string_ok = TRUE
  /\ track = NoTrack
  /\ inflight = NoneInflight

Init ==
  /\ users = {}
  /\ next_id = 1
  /\ NoClient
  /\ call = NoCall

\* The run has a cursor: the last page came with a next_token.
HasCursor == run.phase = "running"

\* The row the cursor of the run was built from: the last of the last page.
CursorRow == resp.val.users[Len(resp.val.users)]

\* A change of the table at row `row`.  During a run it is added to the
\* changes since the last page: behind the cursor or not, an insert later
\* than every row or not.  The history of a run that has ended is dropped.
Change(row, isLateInsert) ==
  IF HasCursor
  THEN /\ pending' = [any |-> TRUE,
                      behind |-> pending.behind /\ KeyLess(row, CursorRow),
                      late |-> pending.late /\ isLateInsert]
       /\ run' = [run EXCEPT !.static = FALSE]
       /\ UNCHANGED << req, resp, query, atFetch, prev, between, db, again,
                       to_string_ok, track, inflight >>
  ELSE /\ req' = None /\ resp' = None /\ query' = None /\ run' = NoRun
       /\ atFetch' = {} /\ prev' = NoPrev /\ pending' = Quiet /\ between' = Quiet
       /\ db' = TRUE /\ again' = None /\ track' = NoTrack
       /\ UNCHANGED << to_string_ok, inflight >>

\* UserRepository::create: INSERT INTO users .. RETURNING id; the row gets
\* the next id and the created_at the database assigns (clock value t).
Insert(t) ==
  LET row == [id |-> next_id, created_at |-> Time(t)] IN
  /\ next_id <= MaxUsers
  /\ users' = users \cup { row }
  /\ next_id' = next_id + 1
  /\ Change(row, \A u \in users : DateTimeLess(u.created_at, row.created_at))
  /\ UNCHANGED << call, http, deleted >>

\* UserRepository::delete: DELETE FROM users WHERE id = $1, on a stored id.
Delete(id) ==
  /\ \E u \in users : u.id = id
  /\ users' = { u \in users : u.id # id }
  /\ Change(CHOOSE u \in users : u.id = id, FALSE)
  /\ UNCHANGED << next_id, call, http, deleted >>

\* The phase of a run after a page.
PhaseAfter(result) ==
  IF ~result.ok THEN "failed"
  ELSE IF result.next_token.some THEN "running"
  ELSE IF result.has_more THEN "stuck"
  ELSE "done"

\* Served for a service that takes the rows it hands out off the table.
ServedAndRemoved(params, out, seen) ==
  /\ req' = Some(params)
  /\ resp' = Some(out.result)
  /\ query' = out.query
  /\ atFetch' = users
  /\ pending' = Quiet
  /\ run' = [phase |-> PhaseAfter(out.result),
             seen |-> IF out.result.ok THEN seen \o out.result.users ELSE seen,
             static |-> run.static \/ run.phase # "running"]
  /\ users' = IF out.result.ok
              THEN users \ { out.result.users[i] : i \in DOMAIN out.result.users }
              ELSE users
  /\ UNCHANGED << next_id, call, http, deleted >>

\* The outcome out of get_users_paginated(params) is recorded; seen: the
\* pages of the run before this one.
Served(params, out, seen) ==
  /\ req' = Some(params)
  /\ resp' = Some(out.result)
  /\ query' = out.query
  /\ atFetch' = users
  /\ pending' = Quiet
  /\ run' = [phase |-> PhaseAfter(out.result),
             seen |-> IF out.result.ok THEN seen \o out.result.users ELSE seen,
             static |-> run.static \/ run.phase # "running"]
  /\ UNCHANGED << users, next_id, call, http, deleted >>

\* get_users_paginated serves params on the current table.
Serve(params, db_ok, seen) ==
  /\ Served(params, GetUsersPaginated(users, params, db_ok), seen)
  /\ db' = db_ok
  /\ again' = None
  /\ UNCHANGED << to_string_ok, inflight >>

\* A client starts a run: a request without next_token.
FirstPage(limit, db_ok) ==
  /\ Serve([next_token |-> None, limit |-> limit], db_ok, << >>)
  /\ prev' = NoPrev
  /\ between' = Quiet
  /\ UNCHANGED track

\* The client continues its run: the next_token of the last page, the same limit.
NextPage(db_ok) ==
  /\ run.phase = "running"
  /\ Serve([next_token |-> resp.val.next_token, limit |-> req.val.limit], db_ok, run.seen)
  /\ prev' = [table |-> atFetch, page |-> resp.val.users]
  /\ between' = pending
  /\ UNCHANGED track

Next ==
  \/ \E t \in 0 .. MaxTime : Insert(t)
  \/ \E id \in 1 .. MaxUsers : Delete(id)
  \/ \E limit \in RunLimits, db_ok \in BOOLEAN : FirstPage(limit, db_ok)
  \/ \E db_ok \in BOOLEAN : NextPage(db_ok)

Spec == Init /\ [][Next]_vars

(***************************************************************************)
(* Single calls: PaginationToken on drawn values and tokens, and           *)
(* get_users_paginated on a seeded table with any token and limit.         *)
(***************************************************************************)

\* The limits a request may carry.
LimitInputs ==
  { None } \cup { Some(n) : n \in { I32Min, -5, 0, 1, 2, 3, 200, 201, 10000, I32Max } }

\* "invalid_token", the token of test_invalid_token and of
\* test_invalid_pagination_token.
InvalidTokenText == << "i", "n", "v", "a", "l", "i", "d", "_", "t", "o", "k", "e", "n" >>

\* "not-base64!!"
NotBase64Text == << "n", "o", "t", "-", "b", "a", "s", "e", "6", "4", "!", "!" >>

\* The tokens a request may carry: malformed ones (no base64, base64 of a
\* JSON text without timestamp), and well-formed ones for any id and clock
\* value, whether a row has that key or not.
TokenInputs ==
  { InvalidTokenText, NotBase64Text, B64Encode(Bytes(<< "{", "\"", "i", "d", "\"", ":", "1", "}" >>)) }
  \cup { Encode(i, Time(t)).token : i \in 0 .. MaxUsers, t \in 0 .. MaxTime }

\* The seeded table of k rows: ids 1 .. k, two rows to a clock value from
\* the second row on.
SeedTable(k) ==
  { [id |-> i, created_at |-> Time(IF i \div 2 < MaxTime THEN i \div 2 ELSE MaxTime)]
    : i \in 1 .. k }

\* The ids and timestamps handed to the codec.
CodecIds == { I32Min, -1, 0, 1, 10, 123, I32Max }

CodecTimes ==
  { Time(t) : t \in 0 .. MaxTime }
  \cup { DateTime(1970, 1, 1, 0, 1000000),
         DateTime(2024, 2, 29, 86399, 999999999),
         DateTime(9999, 12, 31, 43200, 1),
         DateTime(2016, 12, 31, 86399, 1500000000) }

\* Pieces of JSON text.
Quoted(b) == << Ord("\"") >> \o b \o << Ord("\"") >>

Txt(chars) == Bytes(chars)

ObjectOf(members) == Txt(<< "{" >>) \o members \o Txt(<< "}" >>)

IdMember(idText) == Quoted(IdKey) \o Txt(<< ":" >>) \o idText

TsMember(tsText) == Quoted(TimestampKey) \o Txt(<< ":" >>) \o Quoted(tsText)

Comma == Txt(<< "," >>)

ReplaceLast(seq, tail) == SubSeq(seq, 1, Len(seq) - 1) \o tail

\* The JSON texts a client may put in a token for (id, timestamp):
\* well-formed ones that serde_json::to_string does not write ...
WellFormedKinds == { "spaced", "reordered", "extra", "array", "offset" }

\* ... and texts that are no CursorData.
BadJsonKinds ==
  { "missing", "stringid", "floatid", "bigid", "duplicate", "badmonth", "trailing",
    "nonutf8" }

CraftedJson(kind, id, timestamp) ==
  LET i == FormatI32(id)
      t == FormatDateTime(timestamp)
  IN
  CASE kind = "spaced" ->
         Txt(<< " ", "{", " " >>) \o Quoted(IdKey) \o Txt(<< " ", ":", " " >>) \o i
         \o << 10 >> \o Comma \o << 9 >> \o Quoted(TimestampKey) \o Txt(<< ":", " " >>)
         \o Quoted(t) \o << 13 >> \o Txt(<< "}", " " >>)
    [] kind = "reordered" -> ObjectOf(TsMember(t) \o Comma \o IdMember(i))
    [] kind = "extra" ->
         ObjectOf(IdMember(i) \o Comma \o TsMember(t) \o Comma
                  \o Quoted(Txt(<< "x" >>)) \o Txt(<< ":", "n", "u", "l", "l" >>))
    [] kind = "array" -> Txt(<< "[" >>) \o i \o Comma \o Quoted(t) \o Txt(<< "]" >>)
    [] kind = "offset" ->
         ObjectOf(IdMember(i) \o Comma
                  \o TsMember(ReplaceLast(t, Txt(<< "+", "0", "0", ":", "0", "0" >>))))
    [] kind = "missing" -> ObjectOf(IdMember(i))
    [] kind = "stringid" -> ObjectOf(IdMember(Quoted(i)) \o Comma \o TsMember(t))
    [] kind = "floatid" -> ObjectOf(IdMember(i \o Txt(<< ".", "0" >>)) \o Comma \o TsMember(t))
    [] kind = "bigid" ->
         ObjectOf(IdMember(i \o Txt(<< "0", "0", "0", "0", "0", "0", "0", "0", "0", "0" >>))
                  \o Comma \o TsMember(t))
    [] kind = "duplicate" ->
         ObjectOf(IdMember(i) \o Comma \o IdMember(i) \o Comma \o TsMember(t))
    [] kind = "badmonth" ->
         ObjectOf(IdMember(i) \o Comma
                  \o TsMember(SubSeq(t, 1, 5) \o Txt(<< "1", "3" >>) \o SubSeq(t, 8, Len(t))))
    [] kind = "trailing" -> ToJson(id, timestamp) \o Txt(<< "x" >>)
    [] kind = "nonutf8" ->
         ObjectOf(IdMember(i) \o Comma \o TsMember(t) \o Comma
                  \o Quoted(<< 255 >>) \o Txt(<< ":", "n", "u", "l", "l" >>))

\* Strings that are no unpadded URL-safe base64 of a JSON text.
BadTokenKinds == { "text", "notbase64", "empty", "padded", "truncated", "badsymbol" }

MalformedKinds == BadJsonKinds \cup BadTokenKinds

\* The token of a kind for (id, timestamp).
Crafted(kind, id, timestamp) ==
  LET canonical == B64Encode(ToJson(id, timestamp)) IN
  CASE kind = "text" -> InvalidTokenText
    [] kind = "notbase64" -> NotBase64Text
    [] kind = "empty" -> << >>
    [] kind = "padded" -> canonical \o << "=" >>
    [] kind = "truncated" -> SubSeq(canonical, 1, Len(canonical) - 1)
    [] kind = "badsymbol" -> << "!" >> \o SubSeq(canonical, 2, Len(canonical))
    [] OTHER -> B64Encode(CraftedJson(kind, id, timestamp))

\* Inputs of the codec: a pair, and the kind of token to be made for it.
CodecInit ==
  /\ users = {}
  /\ next_id = 1
  /\ NoClient
  /\ call \in [op : {"input"}, id : CodecIds, timestamp : CodecTimes,
               kind : {"encode"} \cup WellFormedKinds \cup MalformedKinds]

\* Input of the handler: the seeded table.
TableInit ==
  /\ \E k \in 0 .. MaxUsers : users = SeedTable(k) /\ next_id = k + 1
  /\ NoClient
  /\ call = NoCall

CallsInit == CodecInit \/ TableInit

Untouched ==
  UNCHANGED << users, next_id, req, resp, query, run, atFetch, prev, pending, between,
               db, again, http, deleted, to_string_ok, track, inflight >>

\* PaginationToken::encode(id, timestamp)
CallEncode ==
  /\ call.op = "input" /\ call.kind = "encode"
  /\ call' = [op |-> "encoded", id |-> call.id, timestamp |-> call.timestamp,
              kind |-> call.kind, result |-> Encode(call.id, call.timestamp)]
  /\ Untouched

\* A client writes a token of its own.
Craft ==
  /\ call.op = "input" /\ call.kind # "encode"
  /\ call' = [op |-> "crafted", id |-> call.id, timestamp |-> call.timestamp,
              kind |-> call.kind,
              result |-> [ok |-> TRUE, token |-> Crafted(call.kind, call.id, call.timestamp)]]
  /\ Untouched

\* PaginationToken::decode(token), on the token encode returned or on the
\* crafted one.
CallDecode ==
  /\ call.op \in {"encoded", "crafted"} /\ call.result.ok
  /\ call' = [op |-> "decoded", id |-> call.id, timestamp |-> call.timestamp,
              kind |-> call.kind, token |-> call.result.token,
              result |-> Decode(call.result.token)]
  /\ Untouched

\* get_users_paginated(params) on the seeded table, once.
CallGetUsersPaginated(next_token, limit, db_ok) ==
  /\ call = NoCall /\ req = None
  /\ Serve([next_token |-> next_token, limit |-> limit], db_ok, << >>)
  /\ prev' = NoPrev
  /\ between' = Quiet
  /\ UNCHANGED track

\* Again for a service that keeps a position of its own: the rows of the
\* last page are not handed out a second time.
AgainAfterLast(params, db_ok) ==
  GetUsersPaginated(IF resp.val.ok
                    THEN users \ { resp.val.users[i] : i \in DOMAIN resp.val.users }
                    ELSE users,
                    params, db_ok).result

\* What get_users_paginated(params) returns on the current table.
Again(params, db_ok) == GetUsersPaginated(users, params, db_ok).result

\* The client sends the request it has sent once more; the table is the same.
Repeat(db_ok) ==
  /\ req.some /\ again = None
  /\ again' = Some([result |-> Again(req.val, db_ok), db_ok |-> db_ok])
  /\ UNCHANGED << users, next_id, req, resp, query, run, atFetch, prev, pending, between,
                  call, db, http, deleted, to_string_ok, track, inflight >>

CallsNext ==
  \/ CallEncode
  \/ Craft
  \/ CallDecode
  \/ \E next_token \in { None } \cup { Some(t) : t \in TokenInputs },
        limit \in LimitInputs, db_ok \in BOOLEAN :
       CallGetUsersPaginated(next_token, limit, db_ok)
  \/ \E db_ok \in BOOLEAN : Repeat(db_ok)

SpecCalls == CallsInit /\ [][CallsNext]_vars

(***************************************************************************)
(* Single calls of get_users_paginated while to_string fails.              *)
(***************************************************************************)

\* The tokens of the cursors (id, clock value), as a client holds them.
CursorTokens == { B64Encode(ToJson(i, Time(t))) : i \in 0 .. MaxUsers, t \in 0 .. MaxTime }

\* to_string begins to fail, before the request.
ToStringFails ==
  /\ to_string_ok /\ req = None
  /\ to_string_ok' = FALSE
  /\ UNCHANGED << users, next_id, req, resp, query, run, atFetch, prev, pending, between,
                  call, db, again, http, deleted, track, inflight >>

FaultsNext ==
  \/ ToStringFails
  \/ \E next_token \in { None } \cup { Some(t) : t \in CursorTokens },
        limit \in LimitInputs, db_ok \in BOOLEAN :
       CallGetUsersPaginated(next_token, limit, db_ok)

SpecFaults == TableInit /\ [][FaultsNext]_vars

(***************************************************************************)
(* Pagination runs that are followed from their first request, on a table  *)
(* that changes, and requests with a token the client wrote.               *)
(***************************************************************************)

\* The limits of the runs that are followed.
TrackLimits == { Some(1), Some(2) }

\* A client starts a run that is followed: a request without next_token.
StartRun(limit) ==
  /\ Serve([next_token |-> None, limit |-> limit], TRUE, << >>)
  /\ prev' = NoPrev
  /\ between' = Quiet
  /\ track' = [from |-> next_id, pages |-> 1]

\* The client continues the run: the next_token of the last page, the same limit.
ContinueRun ==
  /\ run.phase = "running"
  /\ Serve([next_token |-> resp.val.next_token, limit |-> req.val.limit], TRUE, run.seen)
  /\ prev' = [table |-> atFetch, page |-> resp.val.users]
  /\ between' = pending
  /\ track' = IF track.pages > 0 THEN [track EXCEPT !.pages = @ + 1] ELSE track

\* A request with a token the client wrote, for any id and clock value,
\* of a client that has made no request before.
CraftedPage(token, limit) ==
  /\ req = None
  /\ Serve([next_token |-> Some(token), limit |-> limit], TRUE, << >>)
  /\ prev' = NoPrev
  /\ between' = Quiet
  /\ track' = NoTrack

RunNext ==
  \/ \E t \in 0 .. MaxTime : Insert(t)
  \/ \E id \in 1 .. MaxUsers : Delete(id)
  \/ \E limit \in TrackLimits : StartRun(limit)
  \/ ContinueRun

SpecRun == Init /\ [][RunNext]_vars

\* Runs and requests with a written token on a seeded table that loses rows.
CursorNext ==
  \/ \E id \in 1 .. MaxUsers : Delete(id)
  \/ \E limit \in TrackLimits : StartRun(limit)
  \/ ContinueRun
  \/ \E token \in CursorTokens, limit \in TrackLimits : CraftedPage(token, limit)

SpecCursor == TableInit /\ [][CursorNext]_vars

(***************************************************************************)
(* health.rs: HealthRepository, HealthService and the handlers of /health, *)
(* /ready and /live.  pool: the database answers the queries sent through  *)
(* the pool.  The version and the timestamp of a response are left out.    *)
(***************************************************************************)

\* The times a check may measure, in milliseconds.
Millis == { 0, 7 }

ComponentHealth(name, status, message, response_time_ms) ==
  [name |-> name, status |-> status, message |-> message,
   response_time_ms |-> response_time_ms]

\* HealthRepository::check_database: SELECT 1.
CheckDatabase(pool) ==
  IF pool THEN [ok |-> TRUE, sql |-> << "SELECT 1" >>]
  ELSE [ok |-> FALSE, err |-> "Database error: sqlx", sql |-> << "SELECT 1" >>]

\* The component of a database check that took `elapsed`.
DatabaseHealth(checked, elapsed) ==
  [ok |-> TRUE,
   val |-> IF checked.ok
           THEN ComponentHealth("database", "healthy", None, elapsed)
           ELSE ComponentHealth("database", "unhealthy", Some(checked.err), elapsed),
   sql |-> checked.sql]

\* HealthRepository::check_database_detailed
CheckDatabaseDetailed(pool, elapsed) == DatabaseHealth(CheckDatabase(pool), elapsed)

\* The application component: always healthy, measured at once.
AppHealth == ComponentHealth("application", "healthy", None, 0)

\* The response of check_health for the result of the detailed check.
HealthResponse(detailed, overall_healthy, db_health, total_time) ==
  [response |-> [status |-> IF overall_healthy THEN "healthy" ELSE "unhealthy",
                 components |-> << AppHealth, db_health >>,
                 total_response_time_ms |-> total_time],
   sql |-> detailed.sql]

\* The component check_health takes from the detailed check: its value,
\* or an unhealthy database component when it returned an error.
UnwrapOrElse(detailed) ==
  IF detailed.ok THEN detailed.val
  ELSE ComponentHealth("database", "unhealthy", Some("Health check failed"), 0)

Checked(detailed, db_health, total_time) ==
  HealthResponse(detailed, detailed.ok /\ db_health.status = "healthy", db_health, total_time)

\* check_health whose overall status does not look at the database component.
CheckHealthApplicationOnly(pool, elapsed) ==
  HealthResponse(CheckDatabaseDetailed(pool, elapsed), TRUE,
                 UnwrapOrElse(CheckDatabaseDetailed(pool, elapsed)), elapsed)

\* HealthService::check_health
CheckHealth(pool, elapsed) ==
  Checked(CheckDatabaseDetailed(pool, elapsed),
          UnwrapOrElse(CheckDatabaseDetailed(pool, elapsed)), elapsed)

\* check_liveness that goes through the whole health check.
CheckLivenessThroughDatabase(pool, elapsed) == CheckHealth(pool, elapsed)

\* HealthService::check_liveness: the pool is there and is not used.
CheckLiveness(pool, elapsed) ==
  [response |-> [status |-> "healthy",
                 components |-> << ComponentHealth("application", "healthy", None, elapsed) >>,
                 total_response_time_ms |-> elapsed],
   sql |-> << >>]

\* Ok(Json(response)) or Err((SERVICE_UNAVAILABLE, Json(response)))
StatusOfHealth(checked) ==
  [status |-> IF checked.response.status = "healthy" THEN 200 ELSE 503,
   body |-> checked.response, sql |-> checked.sql]

HealthCheckHandler(pool, elapsed) == StatusOfHealth(CheckHealth(pool, elapsed))

ReadinessCheckHandler(pool, elapsed) == StatusOfHealth(CheckHealth(pool, elapsed))

Alive(checked) == [status |-> 200, body |-> checked.response, sql |-> checked.sql]

LivenessCheckHandler(pool, elapsed) == Alive(CheckLiveness(pool, elapsed))

(***************************************************************************)
(* The routes of one user: get_user_by_id and delete_user.                 *)
(***************************************************************************)

NotFound == [ok |-> FALSE, err |-> "NotFound"]

\* UserRepository::find_by_id: SELECT .. WHERE id = $1, fetch_optional.
FindById(table, id, db_ok) ==
  IF ~db_ok THEN DatabaseError
  ELSE [ok |-> TRUE,
        user |-> IF \E u \in table : u.id = id
                 THEN Some(CHOOSE u \in table : u.id = id) ELSE None]

Found(found) ==
  IF ~found.ok THEN found
  ELSE IF found.user.some THEN [ok |-> TRUE, user |-> found.user.val]
  ELSE NotFound

\* ReadUserService::get_user_by_id
GetUserById(table, id, db_ok) == Found(FindById(table, id, db_ok))

\* The status a handler of /users/{id} answers a result with.
StatusOf(result) ==
  IF result.ok THEN 200
  ELSE IF result.err = "NotFound" THEN 404
  ELSE 500

\* UserRepository::delete as a function: the table after DELETE .. WHERE
\* id = $1 and whether a row was affected.
RowsAffected(table, id, db_ok) ==
  IF ~db_ok THEN [ok |-> FALSE, err |-> "DatabaseError", table |-> table]
  ELSE [ok |-> TRUE,
        deleted |-> Cardinality({ u \in table : u.id = id }) > 0,
        table |-> { u \in table : u.id # id }]

\* delete_user that takes every answered DELETE for a deletion.
DeleteUserAlwaysOk(repo, id) ==
  IF ~repo.ok THEN [ok |-> FALSE, err |-> repo.err, table |-> repo.table]
  ELSE [ok |-> TRUE, message |-> << "User with id ", id, " deleted successfully" >>,
        table |-> repo.table]

\* DeleteUserService::delete_user, on what repository.delete(id) returned.
DeleteUser(repo, id) ==
  IF ~repo.ok THEN [ok |-> FALSE, err |-> repo.err, table |-> repo.table]
  ELSE IF repo.deleted
  THEN [ok |-> TRUE, message |-> << "User with id ", id, " deleted successfully" >>,
        table |-> repo.table]
  ELSE [ok |-> FALSE, err |-> "NotFound", table |-> repo.table]

\* The ids a path may carry: stored, deleted and never given out.
PathIds == 0 .. MaxUsers + 1

Rest ==
  UNCHANGED << req, resp, query, run, atFetch, prev, pending, between, call, db, again,
               to_string_ok, track, inflight >>

\* GET /users/{id}
GetUserRequest(id, db_ok) ==
  /\ http' = Some([route |-> "GET /users/{id}", id |-> id, pool |-> db_ok,
                   status |-> StatusOf(GetUserById(users, id, db_ok)),
                   result |-> GetUserById(users, id, db_ok),
                   gone |-> id \in deleted, before |-> users, after |-> users])
  /\ UNCHANGED << users, next_id, deleted >>
  /\ Rest

\* The exchange of a DELETE and the table it leaves.
Removed(id, db_ok, out) ==
  /\ users' = out.table
  /\ deleted' = IF out.ok THEN deleted \cup { id } ELSE deleted
  /\ http' = Some([route |-> "DELETE /users/{id}", id |-> id, pool |-> db_ok,
                   status |-> StatusOf(out),
                   result |-> IF out.ok THEN [ok |-> TRUE, message |-> out.message]
                              ELSE [ok |-> FALSE, err |-> out.err],
                   gone |-> id \in deleted, before |-> users, after |-> out.table])

\* DELETE /users/{id}
DeleteUserRequest(id, db_ok) ==
  /\ Removed(id, db_ok, DeleteUser(RowsAffected(users, id, db_ok), id))
  /\ UNCHANGED next_id
  /\ Rest

\* The exchange of a route of health.
Probe(route, db_ok, out) ==
  /\ http' = Some([route |-> route, pool |-> db_ok, status |-> out.status,
                   body |-> out.body, sql |-> out.sql])
  /\ UNCHANGED << users, next_id, deleted >>
  /\ Rest

\* GET /health
HealthCheck(db_ok, elapsed) == Probe("/health", db_ok, HealthCheckHandler(db_ok, elapsed))

\* GET /ready
ReadinessCheck(db_ok, elapsed) == Probe("/ready", db_ok, ReadinessCheckHandler(db_ok, elapsed))

\* GET /live
LivenessCheck(db_ok, elapsed) == Probe("/live", db_ok, LivenessCheckHandler(db_ok, elapsed))

AppNext ==
  \/ \E t \in 0 .. MaxTime : Insert(t)
  \/ \E id \in PathIds, db_ok \in BOOLEAN : GetUserRequest(id, db_ok)
  \/ \E id \in PathIds, db_ok \in BOOLEAN : DeleteUserRequest(id, db_ok)
  \/ \E db_ok \in BOOLEAN, elapsed \in Millis : HealthCheck(db_ok, elapsed)
  \/ \E db_ok \in BOOLEAN, elapsed \in Millis : ReadinessCheck(db_ok, elapsed)
  \/ \E db_ok \in BOOLEAN, elapsed \in Millis : LivenessCheck(db_ok, elapsed)

SpecApp == Init /\ [][AppNext]_vars

(***************************************************************************)
(* user/validation: rules.rs, create.rs, update.rs                         *)
(***************************************************************************)

\* char::is_whitespace, on the characters of the names drawn here.
IsSpace(ch) == ch \in { " ", "\t" }

\* char::is_numeric, on the characters of the names drawn here.
IsNumeric(ch) == ch \in { "0", "1", "2", "3", "4", "5", "6", "7", "8", "9" }

RECURSIVE TrimStart(_)
TrimStart(s) == IF s # << >> /\ IsSpace(s[1]) THEN TrimStart(Tail(s)) ELSE s

RECURSIVE TrimEnd(_)
TrimEnd(s) ==
  IF s # << >> /\ IsSpace(s[Len(s)]) THEN TrimEnd(SubSeq(s, 1, Len(s) - 1)) ELSE s

\* str::trim
StrTrim(s) == TrimEnd(TrimStart(s))

\* field_error(field, message)
FieldError(field, message) == [message |-> message, field |-> Some(field)]

\* general_error(message)
GeneralError(message) == [message |-> message, field |-> None]

\* validate_name: the errors found, none for Ok(()).
ValidateName(name, field_name) ==
  (IF StrTrim(name) = << >>
   THEN << FieldError(field_name, "Name cannot be empty") >> ELSE << >>)
  \o (IF Len(name) > 100
      THEN << FieldError(field_name, "Name cannot exceed 100 characters") >> ELSE << >>)
  \o (IF \E i \in DOMAIN name : IsNumeric(name[i])
      THEN << FieldError(field_name, "Name cannot contain numbers") >> ELSE << >>)

\* validate_age: the errors found, none for Ok(()).
ValidateAge(age, field_name) ==
  (IF age < 0 THEN << FieldError(field_name, "Age cannot be negative") >> ELSE << >>)
  \o (IF age > 150
      THEN << FieldError(field_name, "Age cannot exceed 150 years") >> ELSE << >>)
  \o (IF age = 0
      THEN << FieldError(field_name, "Age must be greater than 0") >> ELSE << >>)

\* validate_create_user
ValidateCreateUser(user) == ValidateName(user.name, "name") \o ValidateAge(user.age, "age")

\* validate_update_user
ValidateUpdateUser(user) ==
  IF ~user.name.some /\ ~user.age.some
  THEN << GeneralError("At least one field (name or age) must be provided for update") >>
  ELSE (IF user.name.some THEN ValidateName(user.name.val, "name") ELSE << >>)
       \o (IF user.age.some THEN ValidateAge(user.age.val, "age") ELSE << >>)

\* UserError::ValidationError(validation_errors)
ValidationError(errors) == [ok |-> FALSE, err |-> "ValidationError", errors |-> errors]

(***************************************************************************)
(* user/repository.rs, user/services: create, update, utils; bank/service  *)
(***************************************************************************)

\* The User of a row: id, name, age.
UserOf(row) == [id |-> row.id, name |-> row.name, age |-> row.age]

\* UserRepository::create: INSERT INTO users (name, age) VALUES (trimmed
\* name, age) RETURNING id, name, age; the row gets the id `id`.
Create(table, id, user_data, db_ok) ==
  LET row == [id |-> id, created_at |-> Time(0),
              name |-> StrTrim(user_data.name), age |-> user_data.age]
  IN IF ~db_ok THEN [ok |-> FALSE, err |-> "DatabaseError", table |-> table]
     ELSE [ok |-> TRUE, user |-> UserOf(row), table |-> table \cup { row }]

\* What a call returned, the statements it sent, the table it left.
Outcome(result, sql, table) == [result |-> result, sql |-> sql, table |-> table]

\* The result of a repository call without the table.
ResultOf(out) == IF out.ok THEN [ok |-> TRUE, user |-> out.user]
                 ELSE [ok |-> FALSE, err |-> out.err]

\* CreateUserService::create_user
CreateUser(table, id, user_data, db_ok) ==
  IF ValidateCreateUser(user_data) # << >>
  THEN Outcome(ValidationError(ValidateCreateUser(user_data)), << >>, table)
  ELSE Outcome(ResultOf(Create(table, id, user_data, db_ok)), << "INSERT" >>,
               Create(table, id, user_data, db_ok).table)

\* update_user that looks the user up before it validates the input.
UpdateUserFindFirst(table, id, user_data, db_ok) ==
  IF ~FindById(table, id, db_ok).ok
  THEN [result |-> Some(DatabaseError), sql |-> << "SELECT" >>, existing |-> None]
  ELSE IF ~FindById(table, id, db_ok).user.some
  THEN [result |-> Some(NotFound), sql |-> << "SELECT" >>, existing |-> None]
  ELSE IF ValidateUpdateUser(user_data) # << >>
  THEN [result |-> Some(ValidationError(ValidateUpdateUser(user_data))),
        sql |-> << "SELECT" >>, existing |-> None]
  ELSE [result |-> None, sql |-> << "SELECT" >>,
        existing |-> FindById(table, id, db_ok).user]

\* UpdateUserService::update_user up to repository.update: the result if
\* it returns before, else the existing_user it read.
UpdateUserBegin(table, id, user_data, db_ok) ==
  IF ValidateUpdateUser(user_data) # << >>
  THEN [result |-> Some(ValidationError(ValidateUpdateUser(user_data))),
        sql |-> << >>, existing |-> None]
  ELSE IF ~FindById(table, id, db_ok).ok
  THEN [result |-> Some(DatabaseError), sql |-> << "SELECT" >>, existing |-> None]
  ELSE IF ~FindById(table, id, db_ok).user.some
  THEN [result |-> Some(NotFound), sql |-> << "SELECT" >>, existing |-> None]
  ELSE [result |-> None, sql |-> << "SELECT" >>,
        existing |-> FindById(table, id, db_ok).user]

\* UserRepository::update: UPDATE users SET name = $1, age = $2 WHERE
\* id = $3 RETURNING .., fetch_one; a field the input leaves out is written
\* from existing_user.  With no row of that id fetch_one fails, and the
\* failure is mapped to DatabaseError like any other.
Update(table, id, user_data, existing_user, db_ok) ==
  LET name == IF user_data.name.some THEN StrTrim(user_data.name.val)
              ELSE existing_user.name
      age == IF user_data.age.some THEN user_data.age.val ELSE existing_user.age
  IN IF ~db_ok \/ ~\E u \in table : u.id = id
     THEN [ok |-> FALSE, err |-> "DatabaseError", table |-> table]
     ELSE LET old == CHOOSE u \in table : u.id = id
              row == [old EXCEPT !.name = name, !.age = age]
          IN [ok |-> TRUE, user |-> UserOf(row), table |-> (table \ { old }) \cup { row }]

\* create_user_handler: the status for a result.
CreateUserHandler(result) ==
  IF result.ok THEN 200
  ELSE IF result.err = "ValidationError" THEN 400
  ELSE 500

\* update_user_handler: the status for a result.
UpdateUserHandler(result) ==
  IF result.ok THEN 200
  ELSE IF result.err = "ValidationError" THEN 400
  ELSE IF result.err = "NotFound" THEN 404
  ELSE 500

\* UserUtilsService::user_exists
UserExists(table, id, db_ok) ==
  IF ~FindById(table, id, db_ok).ok THEN FindById(table, id, db_ok)
  ELSE [ok |-> TRUE, exists |-> FindById(table, id, db_ok).user.some]

\* BankError::UserServiceError(e)
UserServiceError(e) == [ok |-> FALSE, err |-> "UserServiceError", cause |-> e]

UserNotFound == [ok |-> FALSE, err |-> "UserNotFound"]

\* format!("{initial_balance:.2}") of a balance given in cents.
FormatBalance(cents) == Decimal(cents \div 100) \o << "." >> \o Pad(cents % 100, 2)

\* create_account that opens the account without the check.
CreateAccountUnchecked(table, user_id, initial_balance, db_ok) ==
  [ok |-> TRUE,
   message |-> << "Account created for user ", user_id, " with balance $",
                  FormatBalance(initial_balance) >>]

\* BankService::create_account
CreateAccount(table, user_id, initial_balance, db_ok) ==
  IF ~UserExists(table, user_id, db_ok).ok
  THEN UserServiceError(UserExists(table, user_id, db_ok))
  ELSE IF UserExists(table, user_id, db_ok).exists
  THEN [ok |-> TRUE,
        message |-> << "Account created for user ", user_id, " with balance $",
                       FormatBalance(initial_balance) >>]
  ELSE UserNotFound

\* BankService::update_account_holder: the result of update_user as a
\* result of the bank.
AccountHolderResult(result) ==
  IF result.ok THEN result
  ELSE IF result.err = "NotFound" THEN UserNotFound
  ELSE UserServiceError(result)

(***************************************************************************)
(* Writers: create_user, update_user in its two accesses to the table,     *)
(* delete_user and the calls of the bank, in any order.                    *)
(***************************************************************************)

\* The rows the writers create.
MaxWritten == 1

\* The ids of the requests of the writers: id 0, which no row has, and the
\* ids of the rows created, stored or deleted.
WriteIds == 0 .. MaxWritten

Al == << "A", "l" >>

PaddedBo == << " ", "B", "o", "\t" >>

LongName == [i \in 1 .. 101 |-> "a"]

\* The bodies of POST /users.
CreateInputs ==
  { [name |-> << " " >> \o Al, age |-> 25], [name |-> << >>, age |-> 25],
    [name |-> Al, age |-> 0], [name |-> LongName, age |-> 151] }

\* The bodies of PUT /users/{id}; the update of the name alone is that of
\* update_account_holder.
UpdateInputs ==
  { [name |-> None, age |-> None],
    [name |-> None, age |-> Some(40)],
    [name |-> Some(<< " " >>), age |-> None],
    [name |-> Some(<< "B", "2" >>), age |-> Some(40)],
    [name |-> None, age |-> Some(-1)],
    [name |-> Some(LongName), age |-> None] }

\* The new_name of update_account_holder.
HolderNames == { None, Some(PaddedBo) }

\* The initial_balance of create_account, in cents.
Balances == { 1050 }

Paging ==
  UNCHANGED << req, resp, query, run, atFetch, prev, pending, between, call, db, again,
               to_string_ok, track >>

\* POST /users
CreateUserRequest(user_data, db_ok) ==
  LET out == CreateUser(users, next_id, user_data, db_ok) IN
  /\ next_id <= MaxWritten
  /\ users' = out.table
  /\ next_id' = IF out.result.ok THEN next_id + 1 ELSE next_id
  /\ http' = Some([route |-> "POST /users", user_data |-> user_data, pool |-> db_ok,
                   status |-> CreateUserHandler(out.result), result |-> out.result,
                   sql |-> out.sql, before |-> users, after |-> out.table])
  /\ UNCHANGED << deleted, inflight >>
  /\ Paging

\* The exchange of an update: update_user for PUT /users/{id}, or
\* update_account_holder.
Updated(route, id, user_data, pool, result, sql, after) ==
  http' = Some([route |-> route, id |-> id, user_data |-> user_data, pool |-> pool,
                status |-> UpdateUserHandler(result),
                result |-> IF route = "update_account_holder"
                           THEN AccountHolderResult(result) ELSE result,
                sql |-> sql, before |-> users, after |-> after])

\* update_user up to its write, by task: it returns, or it has read
\* existing_user and waits for its UPDATE.
BeginUpdate(task, route, id, user_data, db_ok, begun) ==
  /\ inflight[task] = None
  /\ IF begun.result.some
     THEN /\ Updated(route, id, user_data, db_ok, begun.result.val, begun.sql, users)
          /\ UNCHANGED inflight
     ELSE /\ inflight' = [inflight EXCEPT ![task] =
                            Some([route |-> route, id |-> id, user_data |-> user_data,
                                  existing_user |-> begun.existing.val])]
          /\ UNCHANGED http
  /\ UNCHANGED << users, next_id, deleted >>
  /\ Paging

\* PUT /users/{id}
UpdateUserRequest(task, id, user_data, db_ok) ==
  BeginUpdate(task, "PUT /users/{id}", id, user_data, db_ok,
              UpdateUserBegin(users, id, user_data, db_ok))

\* BankService::update_account_holder(user_id, new_name)
UpdateAccountHolder(task, user_id, new_name, db_ok) ==
  BeginUpdate(task, "update_account_holder", user_id, [name |-> new_name, age |-> None],
              db_ok, UpdateUserBegin(users, user_id, [name |-> new_name, age |-> None], db_ok))

\* The UPDATE of task is written and its call returns.
Written(task, c, db_ok, out) ==
  /\ users' = out.table
  /\ Updated(c.route, c.id, c.user_data, db_ok, ResultOf(out),
             << "SELECT", "UPDATE" >>, out.table)
  /\ inflight' = [inflight EXCEPT ![task] = None]
  /\ UNCHANGED << next_id, deleted >>
  /\ Paging

\* repository.update(id, &user_data, &existing_user) of the call of task.
UpdateWrite(task, db_ok) ==
  /\ inflight[task].some
  /\ Written(task, inflight[task].val, db_ok,
             Update(users, inflight[task].val.id, inflight[task].val.user_data,
                    inflight[task].val.existing_user, db_ok))

\* BankService::create_account(user_id, initial_balance)
CreateAccountCall(user_id, initial_balance, db_ok) ==
  /\ http' = Some([route |-> "create_account", id |-> user_id,
                   initial_balance |-> initial_balance, pool |-> db_ok,
                   result |-> CreateAccount(users, user_id, initial_balance, db_ok),
                   before |-> users, after |-> users])
  /\ UNCHANGED << users, next_id, deleted, inflight >>
  /\ Paging

\* The steps of the writers, with the update_user calls of `tasks`.
WritersNext(tasks) ==
  \/ \E user_data \in CreateInputs, db_ok \in BOOLEAN : CreateUserRequest(user_data, db_ok)
  \/ \E task \in tasks, id \in WriteIds, user_data \in UpdateInputs, db_ok \in BOOLEAN :
       UpdateUserRequest(task, id, user_data, db_ok)
  \/ \E task \in tasks, id \in WriteIds, new_name \in HolderNames, db_ok \in BOOLEAN :
       UpdateAccountHolder(task, id, new_name, db_ok)
  \/ \E task \in tasks, db_ok \in BOOLEAN : UpdateWrite(task, db_ok)
  \/ \E id \in WriteIds, db_ok \in BOOLEAN : DeleteUserRequest(id, db_ok)
  \/ \E id \in WriteIds, initial_balance \in Balances, db_ok \in BOOLEAN :
       CreateAccountCall(id, initial_balance, db_ok)

WritesNext == WritersNext(Tasks)

\* Two update_user calls may be between their read and their write.
SpecWrites == Init /\ [][WritesNext]_vars

SerialNext == WritersNext({ "a" })

\* One update_user call at a time is between its read and its write; the
\* other requests come in between.
SpecSerial == Init /\ [][SerialNext]_vars

(***************************************************************************)
(* Properties.                                                             *)
(***************************************************************************)

RowsOf(seq) == { seq[i] : i \in DOMAIN seq }

Last(seq) == seq[Len(seq)]

Ascending(seq) == \A i \in 1 .. Len(seq) - 1 : KeyLess(seq[i], seq[i + 1])

\* The limit a request asks for, as the specification words it.
EffectiveLimit(limit) ==
  IF ~limit.some THEN 200
  ELSE IF limit.val < 1 THEN 1
  ELSE IF limit.val > 200 THEN 200
  ELSE limit.val

\* The rows of a table strictly after the decoded cursor c.
FollowingKey(table, c) ==
  { u \in table : KeyLess([id |-> c.id, created_at |-> c.timestamp], u) }

\* The rows of a table a request is about: those after its cursor, or all.
Following(table, params) ==
  IF params.next_token.some THEN FollowingKey(table, Decode(params.next_token.val))
  ELSE table

PageOk == resp.some /\ resp.val.ok

\* The last request continued a run and was served.
Continued == PageOk /\ req.val.next_token.some /\ prev.page # << >>

\* C1: a run over a table that did not change, from a request without
\* next_token to the page with has_more = false, returns every row exactly
\* once and in ascending (created_at, id) order.
C1_MonotonicCoverage ==
  (run.phase = "done" /\ run.static) =>
    /\ Ascending(run.seen)
    /\ RowsOf(run.seen) = users
    /\ Len(run.seen) = Cardinality(users)

\* A finished run of several pages over three rows, two with the same created_at.
C1_Witness ==
  /\ run.phase = "done" /\ run.static
  /\ req.val.next_token.some
  /\ Len(run.seen) = 3
  /\ \E i \in 1 .. 2 : run.seen[i].created_at = run.seen[i + 1].created_at

\* C2: when rows behind the cursor were inserted or deleted between two
\* pages, the next page is the page the table of the previous fetch
\* would have given.
C2_StableBehindCursor ==
  (Continued /\ between.any /\ between.behind) =>
    resp.val = GetUsersPaginated(prev.table, req.val, TRUE).result

\* A next page with rows, after the insert of a row behind the cursor.
C2_Witness ==
  /\ Continued /\ between.any /\ between.behind
  /\ resp.val.users # << >>
  /\ atFetch \ prev.table # {}

\* C3: when rows later than every row were inserted after a page with a
\* next_token, fetching that page again gives the same rows, and the next
\* page holds none of them.
C3_StableUnderLateInsert ==
  /\ (run.phase = "running" /\ pending.any /\ pending.late) =>
       GetUsersPaginated(users, req.val, TRUE).result.users = resp.val.users
  /\ (Continued /\ between.any /\ between.late) =>
       RowsOf(resp.val.users) \cap RowsOf(prev.page) = {}

\* A next page with a row, after the insert of a later row that is now
\* the row beyond the page.
C3_Witness ==
  /\ Continued /\ between.any /\ between.late
  /\ resp.val.users # << >> /\ resp.val.has_more
  /\ atFetch \ prev.table # {}

\* C4: encode succeeds on every (id, timestamp), and decode of its token
\* gives the same (id, timestamp).
C4_RoundTrip ==
  /\ call.op = "encoded" => call.result.ok
  /\ (call.op = "decoded" /\ call.kind = "encode") =>
       call.result = [ok |-> TRUE, id |-> call.id, timestamp |-> call.timestamp]

\* The round trip of i32::MIN and a timestamp with nanoseconds.
C4_Witness ==
  /\ call.op = "decoded" /\ call.kind = "encode" /\ call.result.ok
  /\ call.id = I32Min
  /\ call.timestamp.frac % 1000 # 0

C6_LimitClamping ==
  query.some =>
    /\ query.val.limit = EffectiveLimit(req.val.limit) + 1
    /\ query.val.limit >= 2 /\ query.val.limit <= 201
    /\ PageOk => resp.val.count <= EffectiveLimit(req.val.limit)

\* A request with limit i32::MAX was served by asking for 201 rows.
C6_Witness ==
  /\ query.some /\ req.val.limit = Some(I32Max)
  /\ query.val.limit = 201
  /\ PageOk /\ resp.val.count = MaxUsers

\* C7: has_more is true exactly when more than the effective limit rows
\* of the table lay after the cursor of the request, that is, when a row
\* follows the last returned one.
C7_HasMoreIff ==
  PageOk =>
    /\ resp.val.has_more <=>
         Cardinality(Following(atFetch, req.val)) > EffectiveLimit(req.val.limit)
    /\ resp.val.users # << >> =>
         (resp.val.has_more <=> \E u \in atFetch : KeyLess(Last(resp.val.users), u))

\* A page after a cursor with has_more, and the table holds a row after its last.
C7_Witness ==
  /\ PageOk /\ req.val.next_token.some /\ resp.val.has_more
  /\ \E u \in atFetch : KeyLess(Last(resp.val.users), u)

\* C8: next_token is present exactly when has_more is true.
C8_TokenIffHasMore == PageOk => (resp.val.next_token.some <=> resp.val.has_more)

\* A last page with rows: no token, has_more false.
C8_Witness ==
  /\ PageOk /\ ~resp.val.has_more /\ ~resp.val.next_token.some
  /\ resp.val.users # << >> /\ req.val.next_token.some

\* The token names the last of the rows.
NamesLast(decoded, rows) ==
  /\ decoded.ok
  /\ decoded.id = Last(rows).id
  /\ decoded.timestamp = Last(rows).created_at

\* C9: a next_token decodes to the (id, created_at) of the last returned
\* row, not to that of the row that was dropped.
C9_TokenIsLastRecord ==
  (PageOk /\ resp.val.next_token.some) =>
    /\ resp.val.users # << >>
    /\ NamesLast(Decode(resp.val.next_token.val), resp.val.users)

\* A page of two rows with a token, the dropped row sharing the
\* created_at of the last returned one.
C9_Witness ==
  /\ PageOk /\ resp.val.next_token.some /\ Len(resp.val.users) = 2
  /\ \E u \in atFetch : /\ u \notin RowsOf(resp.val.users)
                        /\ u.created_at = Last(resp.val.users).created_at

\* C10: count is the number of returned rows and at most the effective limit.
C10_CountWithinLimit ==
  PageOk =>
    /\ resp.val.count = Len(resp.val.users)
    /\ resp.val.count <= EffectiveLimit(req.val.limit)

\* A page cut to the limit: more rows after the cursor than it returns.
C10_Witness ==
  /\ PageOk /\ resp.val.count = 2 /\ req.val.limit = Some(2)
  /\ Cardinality(atFetch) > 2

\* C11: the rows of a page are in strictly ascending (created_at, id)
\* order, rows of one created_at by ascending id; and on a table that did
\* not change between two pages of a run, the first row of a page is the
\* row right after the last row of the page before, also when the two have
\* the same created_at: none is skipped, none comes twice.
C11_OrderingContract ==
  /\ PageOk =>
       \A i \in 1 .. Len(resp.val.users) - 1 :
         \/ DateTimeLess(resp.val.users[i].created_at, resp.val.users[i + 1].created_at)
         \/ /\ resp.val.users[i].created_at = resp.val.users[i + 1].created_at
            /\ resp.val.users[i].id < resp.val.users[i + 1].id
  /\ (Continued /\ ~between.any /\ resp.val.users # << >>) =>
       /\ KeyLess(Last(prev.page), resp.val.users[1])
       /\ ~ \E u \in atFetch :
             KeyLess(Last(prev.page), u) /\ KeyLess(u, resp.val.users[1])

\* Three rows of one created_at with limit 2: the page boundary falls
\* between the second and the third.
C11_Witness ==
  /\ Continued /\ ~between.any /\ resp.val.users # << >>
  /\ Len(prev.page) = 2
  /\ prev.page[1].created_at = prev.page[2].created_at
  /\ prev.page[2].created_at = resp.val.users[1].created_at

\* The rows a request is about, in the words of the filter: with a
\* cursor c = (last_id, last_created_at) those created later, or at
\* last_created_at with a greater id; without one, all rows.
Candidates(table, has_cursor, c) ==
  IF has_cursor
  THEN { r \in table : \/ DateTimeLess(c.timestamp, r.created_at)
                       \/ (r.created_at = c.timestamp /\ r.id > c.id) }
  ELSE table

\* A page holds the smallest rows of the candidates, as many as the limit allows.
SmallestOf(page, candidates, limit) ==
  /\ RowsOf(page) \subseteq candidates
  /\ \A u \in candidates \ RowsOf(page) : \A r \in RowsOf(page) : KeyLess(r, u)
  /\ Len(page) = Min(limit, Cardinality(candidates))

\* C12: the rows of a page of a request with a cursor are all strictly
\* after the cursor and are the smallest such rows of the table; the page
\* of a request without a cursor holds the smallest rows of the table.
C12_FilterContract ==
  PageOk =>
    SmallestOf(resp.val.users,
               Candidates(atFetch, req.val.next_token.some,
                          IF req.val.next_token.some
                          THEN Decode(req.val.next_token.val) ELSE None),
               EffectiveLimit(req.val.limit))

\* A cursor that names no row of the table, with a row before it, a row
\* on the page and a row beyond the page.
C12_Witness ==
  /\ PageOk /\ req.val.next_token.some /\ req.val.limit = Some(1)
  /\ Decode(req.val.next_token.val).id = 0
  /\ Len(resp.val.users) = 1
  /\ \E u \in atFetch : KeyLess(u, resp.val.users[1])
  /\ \E u \in atFetch : KeyLess(resp.val.users[1], u)

\* C13: a request whose next_token does not decode gets InvalidToken,
\* which the route answers with 400 and no body, and the repository is
\* not asked anything for it, whether the database would answer or not.
C13_InvalidTokenRejected ==
  (req.some /\ req.val.next_token.some /\ ~IsValid(req.val.next_token.val)) =>
    /\ resp.val = [ok |-> FALSE, err |-> "InvalidToken"]
    /\ GetAllUsersHandler(resp.val) = [status |-> 400, body |-> None]
    /\ query = None

\* The token of test_invalid_pagination_token on a table with rows, the
\* database failing: 400 all the same.
C13_Witness ==
  /\ req.some /\ req.val.next_token = Some(InvalidTokenText)
  /\ users # {} /\ ~db
  /\ GetAllUsersHandler(resp.val).status = 400
  /\ query = None

\* C14: when the query of the page fetch fails, the request returns
\* DatabaseError, answered with 500 and no body: no InvalidToken, no page,
\* no second query that could still give one; and DatabaseError is
\* returned for no other reason.
C14_StoreErrorPropagated ==
  req.some =>
    /\ (query.some /\ ~db) =>
         /\ resp.val = DatabaseError
         /\ GetAllUsersHandler(resp.val) = [status |-> 500, body |-> None]
    /\ (~resp.val.ok /\ resp.val.err = "DatabaseError") => (query.some /\ ~db)

\* A request with a token that decodes, on a table with rows after its
\* cursor, the query failing.
C14_Witness ==
  /\ req.some /\ req.val.next_token.some /\ query.some /\ ~db
  /\ resp.val = DatabaseError
  /\ Following(users, req.val) # {}

C16_StoreUntouched ==
  [][(req' # None /\ pending' = Quiet) => (users' = users /\ next_id' = next_id)]_vars

\* A page was served in the middle of a run and the table still holds
\* the three rows it held.
C16_Witness ==
  /\ PageOk /\ req.val.next_token.some /\ ~pending.any
  /\ resp.val.has_more /\ req.val.limit = Some(1)
  /\ users = atFetch /\ Cardinality(users) = 3 /\ next_id = 4

\* The place of a row in the (created_at, id) order of a table, from 1.
Rank(u, table) == Cardinality({ v \in table : KeyLess(v, u) }) + 1

\* The page that follows `before` rows already returned, of a table of n
\* rows with limit L: page k for before = (k - 1) * L.
LayoutOk(result, table, n, L, before) ==
  /\ before % L = 0
  /\ Len(result.users) = Min(L, n - before)
  /\ \A i \in DOMAIN result.users : /\ result.users[i] \in table
                                     /\ Rank(result.users[i], table) = before + i
  /\ result.count = Len(result.users)
  /\ result.has_more <=> before + L < n
  /\ result.next_token.some <=> before + L < n
  /\ before > 0 => result.users # << >>
  /\ n = 0 => result = [ok |-> TRUE, users |-> << >>, next_token |-> None,
                        has_more |-> FALSE, count |-> 0]

\* C17: in a run over a table of n rows that does not change, with
\* effective limit L, page k holds the rows of rank (k-1)*L+1 .. min(k*L, n),
\* with has_more and a next_token exactly when k*L < n; the empty table
\* gives an empty page without token, and no page after the first is empty.
C17_PageLayout ==
  (PageOk /\ run.static) =>
    /\ users = atFetch
    /\ LayoutOk(resp.val, atFetch, Cardinality(atFetch), EffectiveLimit(req.val.limit),
                Len(run.seen) - Len(resp.val.users))

\* Three rows with limit 2: the page [1, 2] with a token that names row 2,
\* then the page [3], the last.
C17_Witness ==
  /\ PageOk /\ run.static /\ req.val.limit = Some(2) /\ req.val.next_token.some
  /\ [i \in DOMAIN run.seen |-> run.seen[i].id] = << 1, 2, 3 >>
  /\ Len(prev.page) = 2
  /\ NamesLast(Decode(req.val.next_token.val), prev.page)
  /\ resp.val.users = << run.seen[3] >>
  /\ ~resp.val.has_more /\ resp.val.next_token = None

\* The last exchange was with one of the given routes.
Asked(routes) == http.some /\ http.val.route \in routes

\* C18: /health and /ready answer 200 exactly when every component of the
\* response, application and database, is healthy, and 503 otherwise; and
\* the status of the response is "healthy" exactly when the database
\* check succeeded.
C18_HealthStatus ==
  Asked({ "/health", "/ready" }) =>
    /\ http.val.status \in { 200, 503 }
    /\ http.val.status = 200 <=>
         \A i \in DOMAIN http.val.body.components :
           http.val.body.components[i].status = "healthy"
    /\ [i \in DOMAIN http.val.body.components |-> http.val.body.components[i].name]
         = << "application", "database" >>
    /\ http.val.body.status \in { "healthy", "unhealthy" }
    /\ http.val.body.status = "healthy" <=> http.val.pool
    /\ http.val.sql = << "SELECT 1" >>

\* /ready with the database failing: 503 and an unhealthy database component.
C18_Witness ==
  /\ Asked({ "/ready" }) /\ ~http.val.pool
  /\ http.val.status = 503
  /\ http.val.body.components[2].status = "unhealthy"
  /\ http.val.body.components[2].message.some

\* C19: /live answers "healthy" with the one component "application",
\* healthy, whether the database answers or not, and sends it no query.
C19_LivenessAlwaysHealthy ==
  Asked({ "/live" }) =>
    /\ http.val.status = 200
    /\ http.val.body.status = "healthy"
    /\ Len(http.val.body.components) = 1
    /\ http.val.body.components[1].name = "application"
    /\ http.val.body.components[1].status = "healthy"
    /\ http.val.sql = << >>

\* /live while the database fails.
C19_Witness ==
  /\ Asked({ "/live" }) /\ ~http.val.pool
  /\ http.val.body.status = "healthy"
  /\ Len(http.val.body.components) = 1

\* C20: an id that delete_user has deleted has no row; get_user_by_id and
\* delete_user on it return NotFound (404) whenever the database answers;
\* and delete_user on an id without a row returns NotFound and leaves the
\* table as it was.
C20_DeletedStaysGone ==
  /\ \A id \in deleted : ~ \E u \in users : u.id = id
  /\ (Asked({ "GET /users/{id}" }) /\ http.val.gone /\ http.val.pool) =>
       (http.val.result = NotFound /\ http.val.status = 404)
  /\ (Asked({ "DELETE /users/{id}" }) /\ http.val.gone /\ http.val.pool) =>
       (http.val.result = NotFound /\ http.val.status = 404)
  /\ (Asked({ "DELETE /users/{id}" }) /\ http.val.pool
        /\ ~ \E u \in http.val.before : u.id = http.val.id) =>
       /\ http.val.result = NotFound /\ http.val.status = 404
       /\ http.val.after = http.val.before

\* A second DELETE of a deleted id, rows created after the first.
C20_Witness ==
  /\ Asked({ "DELETE /users/{id}" }) /\ http.val.gone /\ http.val.pool
  /\ http.val.status = 404
  /\ http.val.before # {} /\ http.val.after = http.val.before
  /\ \E u \in users : u.id > http.val.id

\* What becomes of the rows `found` the repository returned for limit L:
\* of L + 1 rows the last is dropped, L rows or fewer are all returned.
SentinelDropped(page, found, L) ==
  /\ Len(found) <= L + 1
  /\ Len(found) = L + 1 =>
       /\ page = SubSeq(found, 1, L)
       /\ found[L + 1] \notin RowsOf(page)
  /\ Len(found) <= L => page = found

\* C23: a page request asks the repository for the effective limit plus
\* one rows; when it gets that many, the last is dropped and is not on
\* the page, and when it gets fewer, the page holds them all.
C23_SentinelOverFetch ==
  PageOk =>
    /\ query.some
    /\ query.val.limit = EffectiveLimit(req.val.limit) + 1
    /\ SentinelDropped(resp.val.users,
                       FindPaginated(atFetch, query.val.cursor, query.val.limit).users,
                       EffectiveLimit(req.val.limit))

\* Limit 1 on a table of three rows: two rows fetched, one returned.
C23_Witness ==
  /\ PageOk /\ req.val.limit = Some(1) /\ ~req.val.next_token.some
  /\ query.val.limit = 2
  /\ Len(FindPaginated(atFetch, query.val.cursor, query.val.limit).users) = 2
  /\ Len(resp.val.users) = 1
  /\ Cardinality(atFetch) = 3

\* C30: in a page result, has_more means that count is the effective
\* limit and the page is not empty; a count below the limit means
\* has_more = false and no next_token.
C30_FullPageIffMore ==
  PageOk =>
    /\ resp.val.has_more => resp.val.count = EffectiveLimit(req.val.limit)
    /\ resp.val.has_more => resp.val.users # << >>
    /\ resp.val.count < EffectiveLimit(req.val.limit) =>
         (~resp.val.has_more /\ resp.val.next_token = None)

\* A page of one row where the limit is 3, after a cursor: the last page.
C30_Witness ==
  /\ PageOk /\ req.val.limit = Some(3) /\ req.val.next_token.some
  /\ resp.val.count = 1
  /\ ~resp.val.has_more /\ resp.val.next_token = None

\* C24: when encode fails on a page with more rows after it, the request
\* still succeeds: it returns the rows cut to the limit, has_more = true
\* and no next_token.
C24_EncodingFailureDegrades ==
  (req.some /\ ~to_string_ok /\ db
     /\ Cardinality(Following(atFetch, req.val)) > EffectiveLimit(req.val.limit)) =>
    /\ PageOk
    /\ SmallestOf(resp.val.users, Following(atFetch, req.val),
                  EffectiveLimit(req.val.limit))
    /\ resp.val.has_more
    /\ resp.val.next_token = None
    /\ resp.val.count = EffectiveLimit(req.val.limit)

\* Two of three rows returned after a cursor, has_more without a token.
C24_Witness ==
  /\ req.some /\ ~to_string_ok /\ PageOk /\ req.val.next_token.some
  /\ Len(resp.val.users) = 2 /\ Cardinality(Following(atFetch, req.val)) = 3
  /\ resp.val.has_more /\ resp.val.next_token = None

\* The run was followed from its first request and has ended with
\* has_more = false.
RunEnded == track.pages > 0 /\ run.phase = "done"

\* The number of pages that hold row u.
TimesSeen(u) == Cardinality({ i \in DOMAIN run.seen : run.seen[i] = u })

\* C25: in a run from a request without token to has_more = false, with
\* inserts and deletes between the fetches, every row that was in the
\* table during the whole run is returned exactly once, and no row is
\* returned twice.
C25_ExactlyOnce ==
  RunEnded =>
    /\ \A u \in users : u.id < track.from => TimesSeen(u) = 1
    /\ \A i, j \in DOMAIN run.seen : run.seen[i] = run.seen[j] => i = j

\* A run of two pages that ended after an insert and a delete between its
\* fetches, with a row that was there from start to end.
C25_Witness ==
  /\ RunEnded /\ ~run.static /\ track.pages >= 2
  /\ \E u \in users : u.id < track.from
  /\ \E u \in users : u.id >= track.from
  /\ prev.table \ users # {}

\* The decoded cursor c as a key.
KeyOf(c) == [id |-> c.id, created_at |-> c.timestamp]

\* ceil(n / L)
CeilDiv(n, L) == (n + L - 1) \div L

\* C26: the next_token of a page names a key strictly greater than the
\* cursor of its request; a run over a table of n rows that does not
\* change, with limit L, ends after exactly max(1, ceil(n / L)) requests.
C26_Progress ==
  /\ (PageOk /\ req.val.next_token.some /\ resp.val.next_token.some) =>
       KeyLess(KeyOf(Decode(req.val.next_token.val)),
               KeyOf(Decode(resp.val.next_token.val)))
  /\ (RunEnded /\ run.static) =>
       track.pages = Max(1, CeilDiv(Cardinality(users), EffectiveLimit(req.val.limit)))

\* A run of three requests over three rows with limit 1.
C26_Witness ==
  /\ RunEnded /\ run.static /\ track.pages = 3
  /\ Cardinality(users) = 3 /\ req.val.limit = Some(1)

\* The last request carried a token that decodes and names no row of the table.
NamesNoRow ==
  /\ req.some /\ req.val.next_token.some
  /\ Decode(req.val.next_token.val).ok
  /\ KeyOf(Decode(req.val.next_token.val)) \notin atFetch

\* C27: a token that decodes and names no row is served without error
\* with the first `limit` rows strictly after its key; when the row of the
\* cursor is deleted between two fetches, the next page is the page the
\* table with that row would have given.
C27_ForeignCursor ==
  /\ (NamesNoRow /\ db) =>
       /\ PageOk
       /\ SmallestOf(resp.val.users, Following(atFetch, req.val),
                     EffectiveLimit(req.val.limit))
  /\ (req.some /\ db /\ prev.page # << >>
        /\ atFetch = prev.table \ { Last(prev.page) }) =>
       /\ PageOk
       /\ resp.val = GetUsersPaginated(prev.table, req.val, TRUE).result

\* A page with a row after a cursor whose row was deleted since the page
\* before.
C27_Witness ==
  /\ Continued /\ NamesNoRow
  /\ Last(prev.page) \in prev.table
  /\ atFetch = prev.table \ { Last(prev.page) }
  /\ resp.val.users # << >>

\* The last exchange was the call `route`.
Called(route) == http.some /\ http.val.route = route

\* The table has a row of this id.
Stored(table, id) == \E u \in table : u.id = id

\* C21: an update that gives a name and no age leaves the age of the user
\* as it was stored immediately before the write of the update, also when
\* another update of the user ran between its read and its write.
C21_PartialUpdateKeepsAge ==
  ((Called("update_account_holder") \/ Called("PUT /users/{id}"))
     /\ http.val.result.ok /\ ~http.val.user_data.age.some) =>
    \A u \in http.val.before : u.id = http.val.id =>
      /\ http.val.result.user.age = u.age
      /\ \E v \in http.val.after : v.id = u.id /\ v.age = u.age

\* C22: create_account answers UserNotFound when no user of the id is
\* stored at its check and Ok when one is, and it leaves the table as it is.
C22_CreateAccountChecksUser ==
  /\ [](Called("create_account") /\ http.val.pool =>
          /\ Stored(http.val.before, http.val.id) => http.val.result.ok
          /\ ~Stored(http.val.before, http.val.id) => http.val.result = UserNotFound)
  /\ [][(http' # http /\ http'.some /\ http'.val.route = "create_account") =>
          /\ users' = users
          /\ next_id' = next_id
          /\ http'.val.before = users]_vars

\* create_account for the id of a user that was deleted: UserNotFound.
C22_Witness ==
  /\ Called("create_account") /\ http.val.pool
  /\ http.val.id \in deleted
  /\ http.val.result = UserNotFound

\* C28: update_user with valid input answers NotFound (404), not a
\* database error (500), when no user of the id is stored at its write,
\* also when the user was deleted between find_by_id and the UPDATE.
C28_MissingTargetIsNotFound ==
  (Called("PUT /users/{id}") /\ http.val.pool
     /\ ValidateUpdateUser(http.val.user_data) = << >>
     /\ ~Stored(http.val.before, http.val.id)) =>
    /\ http.val.result = NotFound
    /\ http.val.status = 404

\* C29: create_user and update_user with input that fails validation
\* answer ValidationError (400) without a statement sent to the database
\* and with the table as it was, for an update also when no user of the id
\* is stored.
C29_ValidationFirst ==
  /\ (Called("POST /users") /\ ValidateCreateUser(http.val.user_data) # << >>) =>
       /\ ~http.val.result.ok /\ http.val.result.err = "ValidationError"
       /\ http.val.status = 400
       /\ http.val.sql = << >>
       /\ http.val.after = http.val.before /\ users = http.val.before
  /\ (Called("PUT /users/{id}") /\ ValidateUpdateUser(http.val.user_data) # << >>) =>
       /\ ~http.val.result.ok /\ http.val.result.err = "ValidationError"
       /\ http.val.status = 400
       /\ http.val.sql = << >>
       /\ http.val.after = http.val.before /\ users = http.val.before

\* An update without a field for the id of a deleted user, with the
\* database down: 400.
C29_Witness ==
  /\ Called("PUT /users/{id}") /\ ~http.val.pool
  /\ http.val.id \in deleted
  /\ http.val.user_data = [name |-> None, age |-> None]
  /\ http.val.status = 400

====
